---- MODULE Spec2Model ----
(***************************************************************************)
(* Film Crew AI: the screenplay parsers and the shot deriver.              *)
(*                                                                         *)
(* A screenplay is a Python str.  It is modelled as the non-empty sequence *)
(* of its lines (the text is the lines joined by "\n", so the empty text   *)
(* is <<"">>); every line is a string and the regular expressions of the   *)
(* parsers are evaluated on the characters of the strings.                 *)
(*                                                                         *)
(* Conventions: Python's None is "" where the other values are non-empty   *)
(* strings (current_character, a detected shot type or camera movement)    *)
(* and <<>> where the other value is an object (Optional[Transition] is a  *)
(* sequence of at most one record).  A Python dict is a TLA+ record; a key *)
(* the code did not set is absent from its DOMAIN.                         *)
(***************************************************************************)
EXTENDS Integers, Sequences, FiniteSets, TLC

VARIABLES
    content,            \* the script text, as the sequence of its lines
    seed,               \* the interpreter's string-hash seed (PYTHONHASHSEED)
    pc,                 \* position in parse(): "start", "scenes", "done", "raised"
    scenes,             \* the scene_data dicts of _extract_scenes
    processed_scenes,   \* the EnhancedScene objects built so far
    exc,                \* the exception that left parse(), "" if none
    run,                \* 1 in the first parse of the text, 2 in the second
    first_result,       \* processed_scenes of the first parse (run = 2)
    variant,            \* the parser class in use
    transitions,        \* the list returned by _extract_transitions
    script_voice_overs, \* voice_overs of parse(): the list of _extract_voice_overs
    pipeline,           \* a call of FilmCrewAIPipeline.process_script, <<>> if none
    coordinated         \* a call of process_shot_coordinated, <<>> if none

vars == <<content, seed, pc, scenes, processed_scenes, exc, run, first_result, variant,
          transitions, script_voice_overs, pipeline, coordinated>>

-----------------------------------------------------------------------------
(* Characters and strings (str methods)                                    *)

UPPERCASE == "ABCDEFGHIJKLMNOPQRSTUVWXYZ"
LOWERCASE == "abcdefghijklmnopqrstuvwxyz"
DIGITS    == "0123456789"

Ch(s, i) == SubSeq(s, i, i)

Chars(s) == {Ch(s, i) : i \in 1..Len(s)}

UpperChars == Chars(UPPERCASE)
LowerChars == Chars(LOWERCASE)
DigitChars == Chars(DIGITS)
SpaceChars == {" ", "\t", "\n", "\r"}
WordChars  == UpperChars \cup LowerChars \cup DigitChars \cup {"_"}

\* str.upper() on one character
UpperCh(c) ==
    IF c \in LowerChars
    THEN Ch(UPPERCASE, CHOOSE i \in 1..26 : Ch(LOWERCASE, i) = c)
    ELSE c

LowerCh(c) ==
    IF c \in UpperChars
    THEN Ch(LOWERCASE, CHOOSE i \in 1..26 : Ch(UPPERCASE, i) = c)
    ELSE c

\* str.upper() and str.lower(), by halves
RECURSIVE Upper(_)
Upper(s) ==
    IF Len(s) = 0 THEN ""
    ELSE IF Len(s) = 1 THEN UpperCh(s)
    ELSE Upper(SubSeq(s, 1, Len(s) \div 2)) \o Upper(SubSeq(s, (Len(s) \div 2) + 1, Len(s)))

RECURSIVE Lower(_)
Lower(s) ==
    IF Len(s) = 0 THEN ""
    ELSE IF Len(s) = 1 THEN LowerCh(s)
    ELSE Lower(SubSeq(s, 1, Len(s) \div 2)) \o Lower(SubSeq(s, (Len(s) \div 2) + 1, Len(s)))

\* str.isupper(): a cased character exists and no cased character is lowercase
IsUpper(s) ==
    /\ \E i \in 1..Len(s) : Ch(s, i) \in UpperChars
    /\ \A i \in 1..Len(s) : Ch(s, i) \notin LowerChars

\* str.isalpha()
IsAlpha(s) ==
    /\ Len(s) > 0
    /\ \A i \in 1..Len(s) : Ch(s, i) \in UpperChars \cup LowerChars

\* str.strip()
Strip(s) ==
    LET keep == {i \in 1..Len(s) : Ch(s, i) \notin SpaceChars}
    IN  IF keep = {} THEN ""
        ELSE SubSeq(s, CHOOSE i \in keep : \A j \in keep : i <= j,
                       CHOOSE i \in keep : \A j \in keep : i >= j)

\* s.startswith(p), s.endswith(p), and `p in s`
StartsWith(s, p) == Len(s) >= Len(p) /\ SubSeq(s, 1, Len(p)) = p
EndsWith(s, p)   == Len(s) >= Len(p) /\ SubSeq(s, Len(s) - Len(p) + 1, Len(s)) = p
Contains(s, p)   == \E i \in 1..(Len(s) - Len(p) + 1) : SubSeq(s, i, i + Len(p) - 1) = p

\* s[:n] and s[-n:]
Prefix(s, n) == SubSeq(s, 1, IF n < Len(s) THEN n ELSE Len(s))
Suffix(s, n) == SubSeq(s, IF n < Len(s) THEN Len(s) - n + 1 ELSE 1, Len(s))

\* sep.join(seq)
RECURSIVE Join(_, _)
Join(seq, sep) ==
    IF seq = <<>> THEN ""
    ELSE IF Len(seq) = 1 THEN seq[1]
    ELSE seq[1] \o sep \o Join(Tail(seq), sep)

\* the set S of integers as the ascending sequence
RECURSIVE Ascending(_)
Ascending(S) ==
    IF S = {} THEN <<>>
    ELSE LET m == CHOOSE x \in S : \A y \in S : x <= y
         IN  <<m>> \o Ascending(S \ {m})

\* s.split("\n"): the pieces between the newlines, at least one piece
SplitLines(s) ==
    LET cuts == <<0>> \o Ascending({i \in 1..Len(s) : Ch(s, i) = "\n"}) \o <<Len(s) + 1>>
    IN  [k \in 1..(Len(cuts) - 1) |-> SubSeq(s, cuts[k] + 1, cuts[k + 1] - 1)]

\* s.split(): the maximal runs of non-whitespace characters
SplitWords(s) ==
    LET nonws(i) == i >= 1 /\ i <= Len(s) /\ Ch(s, i) \notin SpaceChars
        starts   == Ascending({i \in 1..Len(s) : nonws(i) /\ ~nonws(i - 1)})
        ends     == Ascending({i \in 1..Len(s) : nonws(i) /\ ~nonws(i + 1)})
    IN  [k \in 1..Len(starts) |-> SubSeq(s, starts[k], ends[k])]

\* str(n) for n >= 0, and the format spec 03d
RECURSIVE Str(_)
Str(n) == IF n < 10 THEN Ch(DIGITS, n + 1) ELSE Str(n \div 10) \o Ch(DIGITS, (n % 10) + 1)

Pad3(n) ==
    LET s == Str(n)
    IN  IF Len(s) >= 3 THEN s
        ELSE IF Len(s) = 2 THEN "0" \o s
        ELSE "00" \o s

-----------------------------------------------------------------------------
(* Regular expressions.  Every match below is of a pattern against text    *)
(* that holds no newline inside the match: the lines of LineVocabulary     *)
(* never begin or end with a dash and are never a bare INT./EXT. prefix,   *)
(* so \s cannot carry a heading match over a line end.                     *)

Min(S) == CHOOSE x \in S : \A y \in S : x <= y
Max(S) == CHOOSE x \in S : \A y \in S : x >= y

\* the ASCII member of the character class [-<en dash><em dash>]
DashChars == {"-"}

\* number of whitespace characters from position i on
WsRun(l, i) ==
    LET stop == {j \in i..Len(l) : Ch(l, j) \notin SpaceChars}
    IN  IF stop = {} THEN Len(l) - i + 1 ELSE Min(stop) - i

\* \s*[-]: the position of the dash that \s*[-] reaches from the character
\* after position e (0 if there is none), with a character left after it
DashAfter(l, e) ==
    LET d == e + WsRun(l, e + 1) + 1
    IN  IF d < Len(l) /\ Ch(l, d) \in DashChars THEN d ELSE 0

NoMatch == [ok |-> FALSE]

\* scene_pattern of AdvancedScriptParser matched at the start of line l:
\*   ^(INT\.|EXT\.|INT/EXT\.|I/E\.)\s+(.+?)\s*[-]\s*(.+?)(?:\s*[-]\s*(.+))?$
\* with re.IGNORECASE; greedy \s+, lazy location, lazy time, optional extra.
AdvScenePrefixes == <<"INT.", "EXT.", "INT/EXT.", "I/E.">>

\* the positions at which a lazy group begun at s can end: \s*[-] follows
LocEnds(l, s) == {e \in s..Len(l) : DashAfter(l, e) # 0}

\* \s* after the dash at d: the whole whitespace run, or, when the run reaches
\* the end of the line, all of it but the last character (left to the group)
SkipWs(l, d) ==
    IF d + WsRun(l, d + 1) < Len(l) THEN WsRun(l, d + 1) ELSE Len(l) - d - 1

\* the end of the lazy time group begun at ts: the first position followed by
\* \s*[-] and a character, or else the end of the line
TimeEnd(l, ts) == Min({t \in ts..Len(l) : t = Len(l) \/ DashAfter(l, t) # 0})

\* the groups of a match: prefix 1..q, location s..e, time ts..te, and the
\* optional extra after the dash at d2 (d2 = 0: the group did not take part)
SceneGroups(l, q, s, e, ts, te, d2) ==
    [ok       |-> TRUE,
     int_ext  |-> SubSeq(l, 1, q),
     location |-> SubSeq(l, s, e),
     time     |-> SubSeq(l, ts, te),
     extra    |-> IF d2 = 0 THEN "" ELSE SubSeq(l, d2 + SkipWs(l, d2) + 1, Len(l))]

\* the match once the location s..e and its dash at d are fixed
SceneAfterDash(l, q, s, e, d) ==
    LET ts == d + SkipWs(l, d) + 1
        te == TimeEnd(l, ts)
    IN  SceneGroups(l, q, s, e, ts, te, IF te = Len(l) THEN 0 ELSE DashAfter(l, te))

scene_pattern(l) ==
    LET U    == Upper(l)
        alts == {k \in 1..Len(AdvScenePrefixes) : StartsWith(U, AdvScenePrefixes[k])}
    IN  IF alts = {} THEN NoMatch
        ELSE
        LET q  == Len(AdvScenePrefixes[Min(alts)])
            Ws == {w \in 1..WsRun(l, q + 1) : LocEnds(l, q + w + 1) # {}}
        IN  IF Ws = {} THEN NoMatch
            ELSE LET e == Min(LocEnds(l, q + Max(Ws) + 1))
                 IN  SceneAfterDash(l, q, q + Max(Ws) + 1, e, DashAfter(l, e))

\* [A-Z][A-Z\s\.]+ matching all of s
NameRun(s) ==
    /\ Len(s) >= 2
    /\ Ch(s, 1) \in UpperChars
    /\ \A i \in 2..Len(s) : Ch(s, i) \in UpperChars \cup SpaceChars \cup {"."}

\* \([^)]+\) matching all of s
ParenGroup(s) ==
    /\ Len(s) >= 3
    /\ Ch(s, 1) = "(" /\ Ch(s, Len(s)) = ")"
    /\ \A i \in 2..(Len(s) - 1) : Ch(s, i) # ")"

\* vo_pattern = ^([A-Z][A-Z\s\.]+)\s*\(V\.O\.\)$ ; the value is group(1)
vo_pattern(s) ==
    IF EndsWith(s, "(V.O.)") /\ NameRun(SubSeq(s, 1, Len(s) - 6))
    THEN [ok |-> TRUE, group1 |-> SubSeq(s, 1, Len(s) - 6)]
    ELSE NoMatch

\* os_pattern = ^([A-Z][A-Z\s\.]+)\s*\(O\.S\.\)$
os_pattern(s) ==
    IF EndsWith(s, "(O.S.)") /\ NameRun(SubSeq(s, 1, Len(s) - 6))
    THEN [ok |-> TRUE, group1 |-> SubSeq(s, 1, Len(s) - 6)]
    ELSE NoMatch

\* character_pattern = ^([A-Z][A-Z\s\.]+)(?:\s*\([^)]+\))?$ : does it match s
character_pattern(s) ==
    LET opens == {i \in 1..Len(s) : Ch(s, i) = "("}
    IN  IF opens = {} THEN NameRun(s)
        ELSE /\ NameRun(SubSeq(s, 1, Min(opens) - 1))
             /\ ParenGroup(SubSeq(s, Min(opens), Len(s)))

\* parenthetical_pattern = ^\s*\([^)]+\)\s*$ : does it match s
parenthetical_pattern(s) == ParenGroup(Strip(s))

\* \b at the gap after position k of s (k = 0: before the first character)
WordBoundary(s, k) ==
    LET isw(i) == i >= 1 /\ i <= Len(s) /\ Ch(s, i) \in WordChars
    IN  isw(k) # isw(k + 1)

\* re.compile(r'\b(a1|a2|...)\b', re.IGNORECASE).search(text) is not "None",
\* alts being the alternatives in upper case and U the text in upper case
WordSearchU(alts, U) ==
    \E i \in 1..Len(U) :
        /\ WordBoundary(U, i - 1)
        /\ \E a \in alts :
              /\ i + Len(a) - 1 <= Len(U)
              /\ SubSeq(U, i, i + Len(a) - 1) = a
              /\ WordBoundary(U, i + Len(a) - 1)

WordSearch(alts, text) == WordSearchU(alts, Upper(text))

-----------------------------------------------------------------------------
(* AdvancedScriptParser: segmentation (_extract_scenes)                    *)

FullText(lines) == Join(lines, "\n")

\* match.start() of a match that begins at line i: the 0-based offset of the line
RECURSIVE LineStart(_, _)
LineStart(lines, i) ==
    IF i = 1 THEN 0 ELSE LineStart(lines, i - 1) + Len(lines[i - 1]) + 1

\* content[a:b] for 0 <= a <= b <= len(content)
Slice(s, a, b) == SubSeq(s, a + 1, b)

\* list(self.scene_pattern.finditer(content)): the lines a match begins at
SceneMatches(lines) == {i \in 1..Len(lines) : scene_pattern(lines[i]).ok}

FLASHBACK_WORDS == {"FLASHBACK", "FLASH BACK", "YEAR AGO", "YEARS AGO", "EARLIER"}
MONTAGE_WORDS   == {"MONTAGE", "SERIES OF SHOTS", "SEQUENCE"}
DREAM_WORDS     == {"DREAM", "NIGHTMARE", "FANTASY", "IMAGINATION"}

\* SceneData with scene_end = len(content) for every scene: the start of the
\* next match is not used
SceneData_EndOfText(lines, ms, k) ==
    LET m       == scene_pattern(lines[ms[k]])
        full    == FullText(lines)
        start   == LineStart(lines, ms[k])
        type    == IF m.extra # "" /\ WordSearch(FLASHBACK_WORDS, m.extra)
                   THEN "FLASHBACK" ELSE "PRESENT"
        heading == m.int_ext \o " " \o m.location \o " - " \o m.time
                   \o (IF m.extra # "" THEN " - " \o m.extra ELSE "")
    IN  [start |-> start, end |-> Len(full), heading |-> heading,
         location |-> m.location, time |-> m.time, type |-> type,
         text |-> Slice(full, start, Len(full))]

\* the scene_data dict of the k-th match (k from 1), ms the match lines in order
SceneData(lines, ms, k) ==
    LET m       == scene_pattern(lines[ms[k]])
        full    == FullText(lines)
        start   == LineStart(lines, ms[k])
        end     == IF k + 1 <= Len(ms) THEN LineStart(lines, ms[k + 1]) ELSE Len(full)
        type    == IF m.extra # "" /\ WordSearch(FLASHBACK_WORDS, m.extra)
                   THEN "FLASHBACK" ELSE "PRESENT"
        heading == m.int_ext \o " " \o m.location \o " - " \o m.time
                   \o (IF m.extra # "" THEN " - " \o m.extra ELSE "")
    IN  [start |-> start, end |-> end, heading |-> heading,
         location |-> m.location, time |-> m.time, type |-> type,
         text |-> Slice(full, start, end)]

\* the dict built when no heading matches: no location, time or type key
DefaultSceneData(lines) ==
    [start |-> 0, end |-> Len(FullText(lines)),
     heading |-> "INT. LOCATION - DAY", text |-> FullText(lines)]

_extract_scenes(lines) ==
    LET ms == Ascending(SceneMatches(lines))
    IN  IF ms = <<>> THEN <<DefaultSceneData(lines)>>
        ELSE [k \in 1..Len(ms) |-> SceneData(lines, ms, k)]

-----------------------------------------------------------------------------
(* AdvancedScriptParser: the line loop of _process_scene                   *)

VoiceOver(character, text, scene_context, timing) ==
    [character |-> character, text |-> text, scene_context |-> scene_context,
     timing |-> timing, emotional_tone |-> ""]

\* str.replace(old, "") for an old that occurs at most once, at the end
RemoveSuffix(s, old) ==
    IF EndsWith(s, old) THEN SubSeq(s, 1, Len(s) - Len(old)) ELSE s

\* ProcessLine with the voice-over of lines 377-382 created as a standalone
\* ("transitional") one
ProcessLine_StandaloneVoiceOver(st, heading, line) ==
    LET line_stripped == Strip(line)
    IN  IF line_stripped = "" THEN
            [st EXCEPT
                !.action_blocks = IF st.current_block # <<>>
                                  THEN Append(@, Join(st.current_block, " ")) ELSE @,
                !.current_block = <<>>,
                !.current_character = ""]
        ELSE IF vo_pattern(line_stripped).ok THEN
            [st EXCEPT !.current_character =
                Strip(vo_pattern(line_stripped).group1) \o " (V.O.)"]
        ELSE IF character_pattern(line_stripped) /\ IsUpper(line_stripped) THEN
            [st EXCEPT
                !.current_character = line_stripped,
                !.dialogue_blocks = Append(@, [character |-> line_stripped, lines |-> <<>>])]
        ELSE IF st.current_character # "" /\ ~parenthetical_pattern(line_stripped) THEN
            IF Contains(st.current_character, "(V.O.)") THEN
                [st EXCEPT !.scene_voice_overs = Append(@,
                    VoiceOver(RemoveSuffix(st.current_character, " (V.O.)"),
                              line_stripped, heading, "transitional"))]
            ELSE IF st.dialogue_blocks # <<>> THEN
                [st EXCEPT !.dialogue_blocks[Len(st.dialogue_blocks)].lines =
                    Append(@, line_stripped)]
            ELSE st
        ELSE
            [st EXCEPT !.current_block = Append(@, line_stripped)]

\* one iteration of `for line in lines[1:]`
ProcessLine(st, heading, line) ==
    LET line_stripped == Strip(line)
    IN  IF line_stripped = "" THEN
            [st EXCEPT
                !.action_blocks = IF st.current_block # <<>>
                                  THEN Append(@, Join(st.current_block, " ")) ELSE @,
                !.current_block = <<>>,
                !.current_character = ""]
        ELSE IF vo_pattern(line_stripped).ok THEN
            [st EXCEPT !.current_character =
                Strip(vo_pattern(line_stripped).group1) \o " (V.O.)"]
        ELSE IF character_pattern(line_stripped) /\ IsUpper(line_stripped) THEN
            [st EXCEPT
                !.current_character = line_stripped,
                !.dialogue_blocks = Append(@, [character |-> line_stripped, lines |-> <<>>])]
        ELSE IF st.current_character # "" /\ ~parenthetical_pattern(line_stripped) THEN
            IF Contains(st.current_character, "(V.O.)") THEN
                [st EXCEPT !.scene_voice_overs = Append(@,
                    VoiceOver(RemoveSuffix(st.current_character, " (V.O.)"),
                              line_stripped, heading, "during_scene"))]
            ELSE IF st.dialogue_blocks # <<>> THEN
                [st EXCEPT !.dialogue_blocks[Len(st.dialogue_blocks)].lines =
                    Append(@, line_stripped)]
            ELSE st
        ELSE
            [st EXCEPT !.current_block = Append(@, line_stripped)]

RECURSIVE LineLoop(_, _, _, _)
LineLoop(st, heading, lines, i) ==
    IF i > Len(lines) THEN st
    ELSE LineLoop(ProcessLine(st, heading, lines[i]), heading, lines, i + 1)

\* lines 341-391: split, loop over lines[1:], flush the open action block
ParseSceneLines(scene_data) ==
    LET lines == SplitLines(scene_data.text)
        st    == LineLoop([action_blocks |-> <<>>, dialogue_blocks |-> <<>>,
                           scene_voice_overs |-> <<>>, current_block |-> <<>>,
                           current_character |-> ""],
                          scene_data.heading, lines, 2)
    IN  [st EXCEPT
            !.action_blocks = IF st.current_block # <<>>
                              THEN Append(@, Join(st.current_block, " ")) ELSE @,
            !.current_block = <<>>]

-----------------------------------------------------------------------------
(* AdvancedScriptParser: shot derivation (_generate_video_shots)           *)

\* self.shot_patterns and self.movement_patterns, in dict (insertion) order
shot_patterns ==
    << [name |-> "WIDE",              alts |-> {"WIDE", "ESTABLISHING", "EXTREME WIDE", "FULL"}],
       [name |-> "MEDIUM",            alts |-> {"MEDIUM", "MED", "TWO-SHOT", "THREE-SHOT"}],
       [name |-> "CLOSE-UP",          alts |-> {"CLOSE-UP", "CLOSE UP", "CU", "TIGHT"}],
       [name |-> "EXTREME CLOSE-UP",  alts |-> {"EXTREME CLOSE-UP", "ECU", "MACRO"}],
       [name |-> "OVER-THE-SHOULDER", alts |-> {"OVER THE SHOULDER", "OTS", "OVER SHOULDER"}],
       [name |-> "POV",               alts |-> {"POV", "POINT OF VIEW", "P.O.V."}],
       [name |-> "INSERT",            alts |-> {"INSERT", "CUTAWAY"}] >>

movement_patterns ==
    << [name |-> "PAN",       alts |-> {"PAN", "PANNING", "PANS"}],
       [name |-> "TILT",      alts |-> {"TILT", "TILTING", "TILTS"}],
       [name |-> "DOLLY",     alts |-> {"DOLLY", "DOLLYING", "DOLLIES", "TRACK", "TRACKING"}],
       [name |-> "CRANE",     alts |-> {"CRANE", "CRANING", "BOOM"}],
       [name |-> "HANDHELD",  alts |-> {"HANDHELD", "HAND-HELD", "SHAKY"}],
       [name |-> "STEADICAM", alts |-> {"STEADICAM", "STEADY CAM", "SMOOTH"}],
       [name |-> "ZOOM",      alts |-> {"ZOOM", "ZOOMING", "ZOOMS"}],
       [name |-> "STATIC",    alts |-> {"STATIC", "LOCKED OFF", "FIXED"}] >>

\* the first family whose pattern is found in text, "" (None) if none is
_detect_shot_type(text) ==
    LET U   == Upper(text)
        hit == {k \in 1..Len(shot_patterns) : WordSearchU(shot_patterns[k].alts, U)}
    IN  IF hit = {} THEN "" ELSE shot_patterns[Min(hit)].name

\* _detect_camera_movement that stops at the first family found
DetectCameraMovement_FirstOnly(text) ==
    LET U   == Upper(text)
        hit == {k \in 1..Len(movement_patterns) :
                    WordSearchU(movement_patterns[k].alts, U)}
    IN  IF hit = {} THEN "" ELSE Lower(movement_patterns[Min(hit)].name)

\* every family found in text, lower case, joined by " "; "" (None) if none is
_detect_camera_movement(text) ==
    LET U   == Upper(text)
        hit == {k \in 1..Len(movement_patterns) :
                    WordSearchU(movement_patterns[k].alts, U)}
        asc == Ascending(hit)
    IN  Join([k \in 1..Len(asc) |-> Lower(movement_patterns[asc[k]].name)], " ")

_estimate_duration(text, shot_type) ==
    LET word_count == Len(SplitWords(text))
    IN  IF shot_type = "WIDE" \/ shot_type = "ESTABLISHING" THEN "5-8 seconds"
        ELSE IF word_count > 50 THEN "5-7 seconds"
        ELSE IF word_count > 20 THEN "3-5 seconds"
        ELSE "2-3 seconds"

STOP_WORDS == {"THE", "AND", "BUT", "FOR", "WITH", "INTO", "OVER"}

\* the sequence sq without the repeats of an element (first occurrences kept)
RECURSIVE Distinct(_)
Distinct(sq) ==
    IF sq = <<>> THEN <<>>
    ELSE LET rest == Distinct(SubSeq(sq, 1, Len(sq) - 1))
             x    == sq[Len(sq)]
         IN  IF \E i \in 1..Len(rest) : rest[i] = x THEN rest ELSE Append(rest, x)

\* list(set(names)): the iteration order of a set of str is fixed by the
\* interpreter's hash seed and not by the program.  Seed h yields the distinct
\* names in first-occurrence order rotated by h positions.
ListOfSet(names, h) ==
    LET d == Distinct(names)
        n == Len(d)
    IN  [i \in 1..n |-> d[((i - 1 + h) % n) + 1]]

_extract_characters_from_action(action, h) ==
    LET words == SplitWords(action)
        keep  == SelectSeq(words, LAMBDA word :
                    /\ IsUpper(word) /\ Len(word) > 2 /\ IsAlpha(word)
                    /\ word \notin STOP_WORDS)
    IN  ListOfSet(keep, h)

\* _needs_new_shot without the two-character test (lines 606-607 left out)
NeedsNewShot_NoCharacterCap(current_shot, new_character) ==
    IF current_shot = <<>> THEN TRUE
    ELSE IF Len(current_shot[1].dialogue) >= 3 THEN TRUE
    ELSE FALSE

_needs_new_shot(current_shot, new_character) ==
    IF current_shot = <<>> THEN TRUE
    ELSE IF Len(current_shot[1].characters_in_frame) >= 2 THEN TRUE
    ELSE IF Len(current_shot[1].dialogue) >= 3 THEN TRUE
    ELSE FALSE

_determine_dialogue_shot_type(shot_count, character) ==
    IF shot_count = 0 THEN "MEDIUM"
    ELSE IF shot_count % 3 = 0 THEN "CLOSE-UP"
    ELSE IF shot_count % 2 = 0 THEN "OVER-THE-SHOULDER"
    ELSE "MEDIUM"

\* f"{scene_number}-{shot_number:03d}"
ShotId(scene_number, shot_number) == Str(scene_number) \o "-" \o Pad3(shot_number)

\* scene_data.get('type', '')
TypeOf(scene_data) == IF "type" \in DOMAIN scene_data THEN scene_data.type ELSE ""

VideoShot(scene_number, shot_number, shot_type, description, duration, camera_movement, characters_in_frame, dialogue, voice_overs, is_flashback, is_montage) ==
    [shot_id |-> ShotId(scene_number, shot_number),
     scene_number |-> Str(scene_number),
     shot_number |-> Pad3(shot_number),
     shot_type |-> shot_type, description |-> description, duration |-> duration,
     camera_movement |-> camera_movement,
     characters_in_frame |-> characters_in_frame,
     dialogue |-> dialogue, voice_overs |-> voice_overs,
     is_flashback |-> is_flashback, is_montage |-> is_montage,
     visual_effects |-> ""]

_create_establishing_shot(scene_number, shot_number, scene_data, action_blocks) ==
    VideoShot(scene_number, shot_number, "WIDE ESTABLISHING",
              IF action_blocks # <<>> THEN Prefix(action_blocks[1], 200)
              ELSE "Establishing " \o scene_data.location,
              "5-8 seconds", "slow push in or crane", <<>>, <<>>, <<>>,
              Contains(TypeOf(scene_data), "FLASHBACK"), FALSE)

_create_closing_shot(scene_number, shot_number, scene_data) ==
    VideoShot(scene_number, shot_number, "WIDE",
              "Scene closing - " \o scene_data.location,
              "3-5 seconds", "pull back or static", <<>>, <<>>, <<>>, FALSE, FALSE)

CONTINUITY_MARKERS == {"CONTINUED", "CONT'D", "CONTINUOUS"}
CLOSING_MARKERS    == {"CUT TO", "FADE TO"}

\* ActionStep with the length test >= 100 in place of > 100
ActionStep_AtLeast100(g, scene_number, scene_data, action, voice_overs, h) ==
    LET shot_type       == _detect_shot_type(action)
        camera_movement == _detect_camera_movement(action)
    IN  IF shot_type # "" \/ camera_movement # "" \/ Len(action) >= 100
        THEN [g EXCEPT
                !.shots = Append(@, VideoShot(
                    scene_number, g.shot_number,
                    IF shot_type # "" THEN shot_type ELSE "MEDIUM",
                    Prefix(action, 200),
                    _estimate_duration(action, shot_type),
                    IF camera_movement # "" THEN camera_movement ELSE "static",
                    _extract_characters_from_action(action, h),
                    <<>>,
                    SelectSeq(voice_overs, LAMBDA vo : vo.timing = "during_scene"),
                    Contains(TypeOf(scene_data), "FLASHBACK"),
                    Contains(TypeOf(scene_data), "MONTAGE"))),
                !.shot_number = @ + 1]
        ELSE g

\* EstablishingStep without the continuity test of line 470
EstablishingStep_Always(g, scene_number, scene_data, action_blocks) ==
    [g EXCEPT
        !.shots = Append(@, _create_establishing_shot(
                                scene_number, g.shot_number, scene_data, action_blocks)),
        !.shot_number = @ + 1]

\* step 1: the establishing shot, unless the scene is a continuation
EstablishingStep(g, scene_number, scene_data, action_blocks) ==
    IF ~\E trans \in CONTINUITY_MARKERS : Contains(Prefix(scene_data.text, 50), trans)
    THEN [g EXCEPT
            !.shots = Append(@, _create_establishing_shot(
                                    scene_number, g.shot_number, scene_data, action_blocks)),
            !.shot_number = @ + 1]
    ELSE g

\* step 2, one iteration of `for action in action_blocks`
ActionStep(g, scene_number, scene_data, action, voice_overs, h) ==
    LET shot_type       == _detect_shot_type(action)
        camera_movement == _detect_camera_movement(action)
    IN  IF shot_type # "" \/ camera_movement # "" \/ Len(action) > 100
        THEN [g EXCEPT
                !.shots = Append(@, VideoShot(
                    scene_number, g.shot_number,
                    IF shot_type # "" THEN shot_type ELSE "MEDIUM",
                    Prefix(action, 200),
                    _estimate_duration(action, shot_type),
                    IF camera_movement # "" THEN camera_movement ELSE "static",
                    _extract_characters_from_action(action, h),
                    <<>>,
                    SelectSeq(voice_overs, LAMBDA vo : vo.timing = "during_scene"),
                    Contains(TypeOf(scene_data), "FLASHBACK"),
                    Contains(TypeOf(scene_data), "MONTAGE"))),
                !.shot_number = @ + 1]
        ELSE g

\* character.split('(')[0].strip()
FrameName(character) ==
    LET opens == {i \in 1..Len(character) : Ch(character, i) = "("}
    IN  Strip(IF opens = {} THEN character ELSE SubSeq(character, 1, Min(opens) - 1))

\* DialogueStep without `shot_number += 1` after a new dialogue shot (line 522)
DialogueStep_NoIncrement(g, scene_number, scene_data, dialogue) ==
    LET character == dialogue.character
    IN  IF _needs_new_shot(g.current, character)
        THEN LET shots == IF g.current # <<>> THEN Append(g.shots, g.current[1])
                          ELSE g.shots
             IN  [shots |-> shots,
                  current |-> << VideoShot(
                      scene_number, g.shot_number,
                      _determine_dialogue_shot_type(Len(shots), character),
                      "Dialogue: " \o character, "3-5 seconds", "subtle drift",
                      <<FrameName(character)>>,
                      <<Join(dialogue.lines, " ")>>,
                      <<>>,
                      Contains(TypeOf(scene_data), "FLASHBACK"), FALSE) >>,
                  shot_number |-> g.shot_number]
        ELSE [g EXCEPT
                !.current[1].dialogue = Append(@, Join(dialogue.lines, " ")),
                !.current[1].characters_in_frame =
                    IF \E i \in 1..Len(@) : @[i] = FrameName(character)
                    THEN @ ELSE Append(@, FrameName(character))]

\* DialogueStep without the append of line 525: a block that continues the
\* current shot adds its character only
DialogueStep_DropsContinuation(g, scene_number, scene_data, dialogue) ==
    LET character == dialogue.character
    IN  IF _needs_new_shot(g.current, character)
        THEN LET shots == IF g.current # <<>> THEN Append(g.shots, g.current[1])
                          ELSE g.shots
             IN  [shots |-> shots,
                  current |-> << VideoShot(
                      scene_number, g.shot_number,
                      _determine_dialogue_shot_type(Len(shots), character),
                      "Dialogue: " \o character, "3-5 seconds", "subtle drift",
                      <<FrameName(character)>>,
                      <<Join(dialogue.lines, " ")>>,
                      <<>>,
                      Contains(TypeOf(scene_data), "FLASHBACK"), FALSE) >>,
                  shot_number |-> g.shot_number + 1]
        ELSE [g EXCEPT
                !.current[1].characters_in_frame =
                    IF \E i \in 1..Len(@) : @[i] = FrameName(character)
                    THEN @ ELSE Append(@, FrameName(character))]

\* step 3, one iteration of `for dialogue in dialogue_blocks`
DialogueStep(g, scene_number, scene_data, dialogue) ==
    LET character == dialogue.character
    IN  IF _needs_new_shot(g.current, character)
        THEN LET shots == IF g.current # <<>> THEN Append(g.shots, g.current[1])
                          ELSE g.shots
             IN  [shots |-> shots,
                  current |-> << VideoShot(
                      scene_number, g.shot_number,
                      _determine_dialogue_shot_type(Len(shots), character),
                      "Dialogue: " \o character, "3-5 seconds", "subtle drift",
                      <<FrameName(character)>>,
                      <<Join(dialogue.lines, " ")>>,
                      <<>>,
                      Contains(TypeOf(scene_data), "FLASHBACK"), FALSE) >>,
                  shot_number |-> g.shot_number + 1]
        ELSE [g EXCEPT
                !.current[1].dialogue = Append(@, Join(dialogue.lines, " ")),
                !.current[1].characters_in_frame =
                    IF \E i \in 1..Len(@) : @[i] = FrameName(character)
                    THEN @ ELSE Append(@, FrameName(character))]

\* step 4, one iteration of `for vo in voice_overs`
VoiceOverStep(g, scene_number, vo) ==
    IF vo.timing = "transitional"
    THEN [g EXCEPT
            !.shots = Append(@, VideoShot(
                scene_number, g.shot_number, "VARIOUS",
                "Voice-over montage: " \o vo.character, "5-10 seconds", "various",
                <<>>, <<>>, <<vo>>, FALSE, TRUE)),
            !.shot_number = @ + 1]
    ELSE g

\* ClosingStep without the marker test of line 552
ClosingStep_IgnoresMarkers(g, scene_number, scene_data) ==
    IF Len(g.shots) > 3
    THEN [g EXCEPT !.shots = Append(@, _create_closing_shot(
                                           scene_number, g.shot_number, scene_data))]
    ELSE g

\* step 5: the closing shot of a substantial scene
ClosingStep(g, scene_number, scene_data) ==
    IF Len(g.shots) > 3
       /\ ~\E trans \in CLOSING_MARKERS : Contains(Suffix(scene_data.text, 50), trans)
    THEN [g EXCEPT !.shots = Append(@, _create_closing_shot(
                                           scene_number, g.shot_number, scene_data))]
    ELSE g

RECURSIVE ActionLoop(_, _, _, _, _, _, _)
ActionLoop(g, scene_number, scene_data, action_blocks, voice_overs, h, i) ==
    IF i > Len(action_blocks) THEN g
    ELSE ActionLoop(ActionStep(g, scene_number, scene_data, action_blocks[i], voice_overs, h),
                    scene_number, scene_data, action_blocks, voice_overs, h, i + 1)

RECURSIVE DialogueLoop(_, _, _, _, _)
DialogueLoop(g, scene_number, scene_data, dialogue_blocks, i) ==
    IF i > Len(dialogue_blocks)
    THEN [g EXCEPT !.shots = IF g.current # <<>> THEN Append(@, g.current[1]) ELSE @,
                   !.current = <<>>]
    ELSE DialogueLoop(DialogueStep(g, scene_number, scene_data, dialogue_blocks[i]),
                      scene_number, scene_data, dialogue_blocks, i + 1)

RECURSIVE VoiceOverLoop(_, _, _, _)
VoiceOverLoop(g, scene_number, voice_overs, i) ==
    IF i > Len(voice_overs) THEN g
    ELSE VoiceOverLoop(VoiceOverStep(g, scene_number, voice_overs[i]),
                       scene_number, voice_overs, i + 1)

\* the loop state is [shots, shot_number, current]: current is the open
\* dialogue shot (current_dialogue_shot, <<>> for None)
_generate_video_shots(scene_number, scene_data, action_blocks, dialogue_blocks, voice_overs, h) ==
    LET g1 == EstablishingStep([shots |-> <<>>, shot_number |-> 1, current |-> <<>>],
                               scene_number, scene_data, action_blocks)
        g2 == ActionLoop(g1, scene_number, scene_data, action_blocks, voice_overs, h, 1)
        g3 == DialogueLoop(g2, scene_number, scene_data, dialogue_blocks, 1)
        g4 == VoiceOverLoop(g3, scene_number, voice_overs, 1)
        g5 == ClosingStep(g4, scene_number, scene_data)
    IN  g5.shots

-----------------------------------------------------------------------------
(* AdvancedScriptParser: the rest of _process_scene                        *)

_detect_scene_type(scene_text, default_type) ==
    LET text_lower == Lower(scene_text)
        U          == Upper(text_lower)
    IN  IF WordSearchU(FLASHBACK_WORDS, U) THEN "FLASHBACK"
        ELSE IF WordSearchU(DREAM_WORDS, U) THEN "DREAM"
        ELSE IF WordSearchU(MONTAGE_WORDS, U) THEN "MONTAGE"
        ELSE default_type

\* self.transition_patterns: three patterns ^(A:?|B:?|...)$ with
\* re.MULTILINE | re.IGNORECASE, each given by its phrases
transition_patterns ==
    << {"FADE IN", "FADE OUT", "FADE TO"},
       {"CUT TO", "DISSOLVE TO", "MATCH CUT TO", "SMASH CUT TO"},
       {"INTERCUT WITH", "BACK TO", "ANGLE ON", "CLOSE ON"} >>

\* pattern.search(text): the first line of text that is a phrase of the
\* pattern, with or without one colon after it; the value is group(1)
TransitionSearch(phrases, text) ==
    LET ls   == SplitLines(text)
        hits == {i \in 1..Len(ls) :
                    \E ph \in phrases : Upper(ls[i]) \in {ph, ph \o ":"}}
    IN  IF hits = {} THEN NoMatch ELSE [ok |-> TRUE, group1 |-> ls[Min(hits)]]

\* str.rstrip(':')
RECURSIVE RStripColon(_)
RStripColon(s) ==
    IF s # "" /\ Ch(s, Len(s)) = ":" THEN RStripColon(SubSeq(s, 1, Len(s) - 1)) ELSE s

Transition(type, from_scene, to_scene) ==
    [type |-> type, from_scene |-> from_scene, to_scene |-> to_scene]

\* lines 403-428, k-th pass of `for pattern in self.transition_patterns`;
\* t is <<transition_in, transition_out>>
RECURSIVE TransitionLoop(_, _, _, _, _)
TransitionLoop(t, scene_number, before_text, after_text, k) ==
    IF k > Len(transition_patterns) THEN t
    ELSE
    LET mb == TransitionSearch(transition_patterns[k], before_text)
        ma == TransitionSearch(transition_patterns[k], after_text)
        tin  == IF mb.ok
                THEN << Transition(RStripColon(mb.group1),
                                   IF scene_number > 1 THEN Str(scene_number - 1)
                                   ELSE "OPENING",
                                   Str(scene_number)) >>
                ELSE t[1]
        tout == IF ma.ok
                THEN << Transition(RStripColon(ma.group1), Str(scene_number),
                                   Str(scene_number + 1)) >>
                ELSE t[2]
    IN  TransitionLoop(<<tin, tout>>, scene_number, before_text, after_text, k + 1)

SceneTransitions(scene_data, scene_number, full_content) ==
    LET scene_start == scene_data.start
        scene_end   == scene_data.end
        before_text == Slice(full_content,
                             IF scene_start - 100 > 0 THEN scene_start - 100 ELSE 0,
                             scene_start)
        after_text  == Slice(full_content, scene_end,
                             IF Len(full_content) < scene_end + 100
                             THEN Len(full_content) ELSE scene_end + 100)
    IN  TransitionLoop(<< <<>>, <<>> >>, scene_number, before_text, after_text, 1)

\* scene_data['location'] and scene_data['time'] raise KeyError on the dict of
\* the no-heading fallback (lines 433-434; 634 and 652 read 'location' too)
ProcessSceneRaises(scene_data) ==
    "location" \notin DOMAIN scene_data \/ "time" \notin DOMAIN scene_data

\* the EnhancedScene returned by _process_scene; h is the hash seed
_process_scene(scene_data, scene_number, full_content, h) ==
    LET st    == ParseSceneLines(scene_data)
        shots == _generate_video_shots(scene_number, scene_data, st.action_blocks,
                                       st.dialogue_blocks, st.scene_voice_overs, h)
        tr    == SceneTransitions(scene_data, scene_number, full_content)
    IN  [scene_number    |-> Str(scene_number),
         heading         |-> scene_data.heading,
         location        |-> scene_data.location,
         time_of_day     |-> scene_data.time,
         scene_type      |-> _detect_scene_type(scene_data.text,
                                IF "type" \in DOMAIN scene_data
                                THEN scene_data.type ELSE "PRESENT"),
         description     |-> IF st.action_blocks # <<>> THEN st.action_blocks[1] ELSE "",
         action_blocks   |-> st.action_blocks,
         dialogue_blocks |-> st.dialogue_blocks,
         voice_overs     |-> st.scene_voice_overs,
         shots           |-> shots,
         transitions_in  |-> tr[1],
         transitions_out |-> tr[2]]

-----------------------------------------------------------------------------
(* AdvancedScriptParser: _extract_transitions and _extract_voice_overs     *)

\* pattern.finditer(content) of one transition pattern: the lines that are a
\* phrase of the pattern with or without one colon, in any letter case
TransitionLines(phrases, lines) ==
    Ascending({i \in 1..Len(lines) :
                  \E ph \in phrases : Upper(lines[i]) \in {ph, ph \o ":"}})

\* the Transitions of the matches of one pattern
PatternTransitions(phrases, lines) ==
    LET ms == TransitionLines(phrases, lines)
    IN  [n \in 1..Len(ms) |-> Transition(RStripColon(lines[ms[n]]), "", "")]

\* the patterns in their order, the matches of each in document order
_extract_transitions(lines) ==
    PatternTransitions(transition_patterns[1], lines)
    \o PatternTransitions(transition_patterns[2], lines)
    \o PatternTransitions(transition_patterns[3], lines)

\* every character of l is of the class [A-Z\s\.]
ClassLine(l) == \A i \in 1..Len(l) : Ch(l, i) \in UpperChars \cup SpaceChars \cup {"."}

\* vo_pattern / os_pattern matched on the whole text from the start of line i.
\* [A-Z\s\.] holds the newline, so the name group runs over the lines before
\* the cue that hold nothing but capitals, spaces and dots.  The value is the
\* line j the match ends in, 0 if there is no match.
CueMatchEnd(lines, i, suffix) ==
    LET stops == {j \in i..Len(lines) : ~ClassLine(lines[j])}
    IN  IF lines[i] = "" \/ stops = {} THEN 0
        ELSE IF /\ Ch(lines[i], 1) \in UpperChars
                /\ EndsWith(lines[Min(stops)], suffix)
                /\ ClassLine(RemoveSuffix(lines[Min(stops)], suffix))
                /\ LineStart(lines, Min(stops)) + Len(lines[Min(stops)]) - Len(suffix)
                       - LineStart(lines, i) >= 2
             THEN Min(stops)
             ELSE 0

\* finditer: the matches <<i, j>> (first and last line) from line i on, in
\* document order and without overlap
RECURSIVE CueMatches(_, _, _)
CueMatches(lines, i, suffix) ==
    IF i > Len(lines) THEN <<>>
    ELSE IF CueMatchEnd(lines, i, suffix) = 0 THEN CueMatches(lines, i + 1, suffix)
    ELSE << <<i, CueMatchEnd(lines, i, suffix)>> >>
         \o CueMatches(lines, CueMatchEnd(lines, i, suffix) + 1, suffix)

\* lines 290-297: the lines collected from content_lines[n] on; the loop
\* ends at an empty line or a line that character_pattern matches, and a
\* parenthetical is skipped
RECURSIVE NarrationLines(_, _)
NarrationLines(content_lines, n) ==
    IF n > Len(content_lines) THEN <<>>
    ELSE IF Strip(content_lines[n]) = "" THEN <<>>
    ELSE IF character_pattern(Strip(content_lines[n])) THEN <<>>
    ELSE IF parenthetical_pattern(Strip(content_lines[n]))
         THEN NarrationLines(content_lines, n + 1)
    ELSE <<Strip(content_lines[n])>> \o NarrationLines(content_lines, n + 1)

\* lines 283-305 (and 309-330) for the match <<i, j>>: the dict, or nothing
\* when no line was collected
CueEntry(lines, match, suffix, type) ==
    LET position == LineStart(lines, match[2]) + Len(lines[match[2]])
        group1   == Slice(FullText(lines), LineStart(lines, match[1]),
                          position - Len(suffix))
        collected == NarrationLines(
                        SplitLines(Slice(FullText(lines), position,
                                         Len(FullText(lines)))), 1)
    IN  IF collected # <<>>
        THEN << [character |-> Strip(group1), text |-> Join(collected, " "),
                 position |-> position, type |-> type] >>
        ELSE <<>>

RECURSIVE CueEntries(_, _, _, _, _)
CueEntries(lines, matches, n, suffix, type) ==
    IF n > Len(matches) THEN <<>>
    ELSE CueEntry(lines, matches[n], suffix, type)
         \o CueEntries(lines, matches, n + 1, suffix, type)

_extract_voice_overs(lines) ==
    CueEntries(lines, CueMatches(lines, 1, "(V.O.)"), 1, "(V.O.)", "voice_over")
    \o CueEntries(lines, CueMatches(lines, 1, "(O.S.)"), 1, "(O.S.)", "off_screen")

-----------------------------------------------------------------------------
(* AdvancedScriptParser.parse as a state machine                           *)

\* Bounds of the checked inputs
MaxLines == 3
MaxSeed  == 1

\* the lines the checked screenplays are made of
LineVocabulary ==
    { "INT. OFFICE - DAY",          \* a scene heading
      "EXT. YARD - CONTINUOUS",     \* a heading that holds a continuity marker
      "INT. OFFICE",                \* a malformed heading (no dash, no time)
      "",                           \* a blank line
      "JOHN",                       \* a character cue
      "SARAH (V.O.)",               \* a voice-over cue
      "MARY (O.S.)",                \* an off-screen cue
      "Hello.",                     \* a line of dialogue or action
      "Every morning starts the same.",     \* a line of narration
      "JOHN and MARY pan." }        \* action naming two characters and a movement

Init ==
    /\ content \in UNION {[1..k -> LineVocabulary] : k \in 1..MaxLines}
    /\ seed \in 0..MaxSeed
    /\ pc = "start"
    /\ scenes = <<>>
    /\ processed_scenes = <<>>
    /\ exc = ""
    /\ run = 1
    /\ first_result = <<>>
    /\ transitions = <<>>
    /\ script_voice_overs = <<>>
    /\ pipeline = <<>>
    /\ coordinated = <<>>
    /\ variant = "AdvancedScriptParser"

\* parse, lines 196-198
ExtractScenes ==
    /\ variant = "AdvancedScriptParser"
    /\ pc = "start"
    /\ scenes' = _extract_scenes(content)
    /\ transitions' = _extract_transitions(content)
    /\ script_voice_overs' = _extract_voice_overs(content)
    /\ pc' = "scenes"
    /\ UNCHANGED <<content, seed, processed_scenes, exc, run, first_result, variant, pipeline,
                 coordinated>>

\* parse, lines 202-206: one iteration of the loop over the scenes
ProcessScene ==
    /\ variant = "AdvancedScriptParser"
    /\ pc = "scenes"
    /\ Len(processed_scenes) < Len(scenes)
    /\ LET i == Len(processed_scenes) + 1
       IN  /\ ~ProcessSceneRaises(scenes[i])
           /\ processed_scenes' = Append(processed_scenes,
                  _process_scene(scenes[i], i, FullText(content), seed))
    /\ UNCHANGED <<content, seed, pc, scenes, exc, run, first_result, variant,
                 transitions, script_voice_overs, pipeline,
                 coordinated>>

\* the same iteration when _process_scene raises: the KeyError leaves parse()
ProcessSceneKeyError ==
    /\ variant = "AdvancedScriptParser"
    /\ pc = "scenes"
    /\ Len(processed_scenes) < Len(scenes)
    /\ ProcessSceneRaises(scenes[Len(processed_scenes) + 1])
    /\ pc' = "raised"
    /\ exc' = "KeyError"
    /\ UNCHANGED <<content, seed, scenes, processed_scenes, run, first_result, variant,
                 transitions, script_voice_overs, pipeline,
                 coordinated>>

\* parse, lines 209-213: the loop is over, the scenes are returned
Finish ==
    /\ variant = "AdvancedScriptParser"
    /\ pc = "scenes"
    /\ Len(processed_scenes) = Len(scenes)
    /\ pc' = "done"
    /\ UNCHANGED <<content, seed, scenes, processed_scenes, exc, run, first_result, variant,
                 transitions, script_voice_overs, pipeline,
                 coordinated>>

Next == ExtractScenes \/ ProcessScene \/ ProcessSceneKeyError \/ Finish

Spec == Init /\ [][Next]_vars

-----------------------------------------------------------------------------
(* Scenes with a heading: the KeyError branch is never enabled             *)

NextHeaded == ExtractScenes \/ ProcessScene \/ Finish

\* Dialogue coverage: one scene of up to MaxBlocks character cues (each cue
\* opens a dialogue block); no action line, so the hash seed is not read
MaxBlocks == 6
MaxPairBlocks == 8

\* the cue lines of up to n dialogue blocks of three characters, of two characters
CueRuns(n) == UNION {[1..k -> {"JOHN", "MARY", "BOB"}] : k \in 0..n}

InitCoverage ==
    /\ content \in {<<"INT. OFFICE - DAY">> \o c :
                        c \in CueRuns(MaxBlocks)
                              \cup UNION {[1..k -> {"JOHN", "MARY"}] : k \in 0..MaxPairBlocks}}
    /\ seed = 0
    /\ pc = "start"
    /\ scenes = <<>>
    /\ processed_scenes = <<>>
    /\ exc = ""
    /\ run = 1
    /\ first_result = <<>>
    /\ transitions = <<>>
    /\ script_voice_overs = <<>>
    /\ pipeline = <<>>
    /\ coordinated = <<>>
    /\ variant = "AdvancedScriptParser"

SpecCoverage == InitCoverage /\ [][NextHeaded]_vars

\* Shot numbering: one scene with or without a continuity marker, zero to
\* two qualifying action blocks, then up to MaxCues character cues
MaxCues == 4

InitShots ==
    /\ content \in {<<h>> \o a \o c :
                        h \in {"INT. OFFICE - DAY", "EXT. YARD - CONTINUOUS"},
                        a \in { <<>>,
                              <<"JOHN and MARY pan.", "">>,
                              <<"JOHN and MARY pan.", "", "Hello.", "", "JOHN and MARY pan.", "">> },
                        c \in CueRuns(MaxCues)}
    /\ seed \in 0..MaxSeed
    /\ pc = "start"
    /\ scenes = <<>>
    /\ processed_scenes = <<>>
    /\ exc = ""
    /\ run = 1
    /\ first_result = <<>>
    /\ transitions = <<>>
    /\ script_voice_overs = <<>>
    /\ pipeline = <<>>
    /\ coordinated = <<>>
    /\ variant = "AdvancedScriptParser"

SpecShots == InitShots /\ [][NextHeaded]_vars

\* Scene endings: the scenes of the shot numbering, followed by nothing, by a
\* transition line (upper or lower case), or by a transition line and a line
\* of more than 50 characters
InitClosing ==
    /\ content \in {<<h>> \o a \o c \o e :
                        h \in {"INT. OFFICE - DAY", "EXT. YARD - CONTINUOUS"},
                        a \in { <<>>,
                              <<"JOHN and MARY pan.", "">>,
                              <<"JOHN and MARY pan.", "", "Hello.", "", "JOHN and MARY pan.", "">> },
                        c \in CueRuns(MaxCues),
                        e \in {<<>>, <<"", "CUT TO:">>, <<"", "FADE TO:">>, <<"", "cut to:">>,
                               <<"", "CUT TO:", "",
                                 "He waits alone for a very long while under the grey sky.">>}}
    /\ seed = 0
    /\ pc = "start"
    /\ scenes = <<>>
    /\ processed_scenes = <<>>
    /\ exc = ""
    /\ run = 1
    /\ first_result = <<>>
    /\ transitions = <<>>
    /\ script_voice_overs = <<>>
    /\ pipeline = <<>>
    /\ coordinated = <<>>
    /\ variant = "AdvancedScriptParser"

SpecClosing == InitClosing /\ [][NextHeaded]_vars

\* Action blocks around the length threshold: lines of exactly 100 and 101
\* characters without keyword, short lines with a shot-type keyword, with a
\* movement keyword and without keyword, and the blank line
MaxThresholdLines == 3

InitThreshold ==
    /\ content \in
         LET ThresholdVocabulary ==
                 { "She folds the letter twice, puts it in her coat, and walks to the door "
                 \o "without looking back at them.",
                 "She folds the letter twice, puts it in her coat, and walks to the door "
                 \o "without looking back at those.",
                 "A close-up of the letter.",
                 "The camera zooms in.",
                 "She pants beside her companion.",
                 "" }
         IN  {<<"INT. OFFICE - DAY">> \o b :
                            b \in UNION {[1..k -> ThresholdVocabulary] : k \in 1..MaxThresholdLines}}
    /\ seed = 0
    /\ pc = "start"
    /\ scenes = <<>>
    /\ processed_scenes = <<>>
    /\ exc = ""
    /\ run = 1
    /\ first_result = <<>>
    /\ transitions = <<>>
    /\ script_voice_overs = <<>>
    /\ pipeline = <<>>
    /\ coordinated = <<>>
    /\ variant = "AdvancedScriptParser"

SpecThreshold == InitThreshold /\ [][NextHeaded]_vars

\* Dialogue with its lines: one scene of up to MaxDialogueLines lines, cues of
\* two characters, two spoken lines and the blank line
MaxDialogueLines == 5

InitDialogue ==
    /\ content \in {<<"INT. OFFICE - DAY">> \o b :
                        b \in UNION {[1..k -> {"", "JOHN", "MARY", "One.", "Two."}] :
                                     k \in 0..MaxDialogueLines}}
    /\ seed = 0
    /\ pc = "start"
    /\ scenes = <<>>
    /\ processed_scenes = <<>>
    /\ exc = ""
    /\ run = 1
    /\ first_result = <<>>
    /\ transitions = <<>>
    /\ script_voice_overs = <<>>
    /\ pipeline = <<>>
    /\ coordinated = <<>>
    /\ variant = "AdvancedScriptParser"

SpecDialogue == InitDialogue /\ [][NextHeaded]_vars

\* Narrated and montage scenes: a plain heading or one marked MONTAGE, and up
\* to MaxMontageLines lines: a voice-over cue, a character cue, a line of
\* narration, an action line that names a montage and a movement
MaxMontageLines == 4

InitMontage ==
    /\ content \in {<<h>> \o b :
                        h \in {"INT. OFFICE - DAY", "EXT. CITY - DAY - MONTAGE"},
                        b \in UNION {[1..k -> {"", "SARAH (V.O.)", "JOHN",
                                              "Every morning starts the same.",
                                              "A montage of streets: the camera pans."}] :
                                     k \in 0..MaxMontageLines}}
    /\ seed = 0
    /\ pc = "start"
    /\ scenes = <<>>
    /\ processed_scenes = <<>>
    /\ exc = ""
    /\ run = 1
    /\ first_result = <<>>
    /\ transitions = <<>>
    /\ script_voice_overs = <<>>
    /\ pipeline = <<>>
    /\ coordinated = <<>>
    /\ variant = "AdvancedScriptParser"

SpecMontage == InitMontage /\ [][NextHeaded]_vars

\* Parsing the same text a second time, in the same interpreter or in a new
\* interpreter process (whose hash seed is drawn afresh)
ParseAgain ==
    /\ variant = "AdvancedScriptParser"
    /\ pc = "done"
    /\ run = 1
    /\ run' = 2
    /\ first_result' = processed_scenes
    /\ seed' \in 0..MaxSeed
    /\ pc' = "start"
    /\ scenes' = <<>>
    /\ processed_scenes' = <<>>
    /\ transitions' = <<>>
    /\ script_voice_overs' = <<>>
    /\ UNCHANGED <<content, exc, variant, pipeline,
                 coordinated>>

SpecTwice == Init /\ [][Next \/ ParseAgain]_vars

\* Scenes made of action lines: one heading and up to MaxActionLines lines,
\* blank lines separating the action blocks
MaxActionLines == 4

HandheldAction ==
    "The handheld camera follows her down the long corridor, past the open "
    \o "doors and the silent guards, until she stops at the last window and "
    \o "looks outside."

InitAction ==
    /\ content \in
         LET ActionVocabulary ==
                 { HandheldAction,                          \* more than 150 characters, one family
                 "We pan across the room and tilt up.",   \* two families
                 "Tracking shot: crane over SARAH.",      \* synonyms of two families
                 "She pants beside her companion.",       \* no keyword, "pan" inside words
                 "" }
         IN  {<<"INT. OFFICE - DAY">> \o b : b \in UNION {[1..k -> ActionVocabulary] : k \in 1..MaxActionLines}}
    /\ seed = 0
    /\ pc = "start"
    /\ scenes = <<>>
    /\ processed_scenes = <<>>
    /\ exc = ""
    /\ run = 1
    /\ first_result = <<>>
    /\ transitions = <<>>
    /\ script_voice_overs = <<>>
    /\ pipeline = <<>>
    /\ coordinated = <<>>
    /\ variant = "AdvancedScriptParser"

SpecAction == InitAction /\ [][NextHeaded]_vars

\* Scene openings: a heading with or without a continuity marker, the marker
\* inside or across the 50th character, up to MaxOpeningLines lines, and
\* possibly the heading of a second scene
MaxOpeningLines == 3

InitOpening ==
    /\ content \in
         LET OpeningHeadings ==
                 { "INT. OFFICE - DAY",
                 "EXT. YARD - CONTINUOUS",
                 "INT. THE ABANDONED WAREHOUSE BY THE DOCKS - CONTINUOUS" }
             OpeningVocabulary ==
                 {"", "JOHN (CONT'D)", "Hello.", "We pan across the room and tilt up."}
         IN  {<<h>> \o b \o next :
                            h \in OpeningHeadings,
                            b \in UNION {[1..k -> OpeningVocabulary] : k \in 0..MaxOpeningLines},
                            next \in {<<>>} \cup {<<h2>> : h2 \in OpeningHeadings}}
    /\ seed = 0
    /\ pc = "start"
    /\ scenes = <<>>
    /\ processed_scenes = <<>>
    /\ exc = ""
    /\ run = 1
    /\ first_result = <<>>
    /\ transitions = <<>>
    /\ script_voice_overs = <<>>
    /\ pipeline = <<>>
    /\ coordinated = <<>>
    /\ variant = "AdvancedScriptParser"

SpecOpening == InitOpening /\ [][NextHeaded]_vars

\* Scenes with short and stop-word lines in capitals: one heading and up to
\* MaxCapsLines lines
MaxCapsLines == 3

InitCaps ==
    /\ content \in
         LET CapsVocabulary ==
                 {"", "A", "AB", "THE", "WITH", "JOHN", "Hello."}
         IN  {<<"INT. OFFICE - DAY">> \o b : b \in UNION {[1..k -> CapsVocabulary] : k \in 1..MaxCapsLines}}
    /\ seed = 0
    /\ pc = "start"
    /\ scenes = <<>>
    /\ processed_scenes = <<>>
    /\ exc = ""
    /\ run = 1
    /\ first_result = <<>>
    /\ transitions = <<>>
    /\ script_voice_overs = <<>>
    /\ pipeline = <<>>
    /\ coordinated = <<>>
    /\ variant = "AdvancedScriptParser"

SpecCaps == InitCaps /\ [][NextHeaded]_vars

\* Transition lines: texts of up to MaxTransitionLines lines made of a scene
\* heading, transition lines (with a colon, with a full stop) and plain text
MaxTransitionLines == 4

InitTransitions ==
    /\ content \in
         LET TransitionVocabulary ==
                 {"INT. OFFICE - DAY", "FADE IN:", "CUT TO:", "DISSOLVE TO:", "FADE OUT.",
                 "FADE TO:", "Some content."}
         IN  UNION {[1..k -> TransitionVocabulary] : k \in 1..MaxTransitionLines}
    /\ seed = 0
    /\ pc = "start"
    /\ scenes = <<>>
    /\ processed_scenes = <<>>
    /\ exc = ""
    /\ run = 1
    /\ first_result = <<>>
    /\ transitions = <<>>
    /\ script_voice_overs = <<>>
    /\ pipeline = <<>>
    /\ coordinated = <<>>
    /\ variant = "AdvancedScriptParser"

SpecTransitions == InitTransitions /\ [][Next]_vars

-----------------------------------------------------------------------------
(* ScriptParser (film_crew_ai.py).  The line loops of EnhancedScriptParser *)
(* and FixedScriptParser are the same statements.                          *)

SP_ScenePrefixes == <<"INT.", "EXT.", "INT/EXT.">>

\* the groups of a match: prefix 1..q, location s..e, time from after the
\* dash at d to the end of the line
SP_SceneGroups(l, q, s, e, d) ==
    [ok       |-> TRUE,
     int_ext  |-> SubSeq(l, 1, q),
     location |-> SubSeq(l, s, e),
     time     |-> SubSeq(l, d + SkipWs(l, d) + 1, Len(l))]

\* scene_pattern of ScriptParser matched at the start of line l:
\*   ^(INT\.|EXT\.|INT/EXT\.)\s+(.+?)\s*[-...]\s*(.+)$
\* case-sensitive; greedy \s+, lazy location, greedy time.  Of the dash class
\* the ASCII member is modelled.
SP_scene_pattern(l) ==
    LET alts == {k \in 1..Len(SP_ScenePrefixes) : StartsWith(l, SP_ScenePrefixes[k])}
    IN  IF alts = {} THEN NoMatch
        ELSE
        LET q  == Len(SP_ScenePrefixes[Min(alts)])
            Ws == {w \in 1..WsRun(l, q + 1) : LocEnds(l, q + w + 1) # {}}
        IN  IF Ws = {} THEN NoMatch
            ELSE LET e == Min(LocEnds(l, q + Max(Ws) + 1))
                 IN  SP_SceneGroups(l, q, q + Max(Ws) + 1, e, DashAfter(l, e))

\* [A-Z][A-Z\s]+ matching all of s
SP_NameRun(s) ==
    /\ Len(s) >= 2
    /\ Ch(s, 1) \in UpperChars
    /\ \A i \in 2..Len(s) : Ch(s, i) \in UpperChars \cup SpaceChars

\* character_pattern = ^[A-Z][A-Z\s]+(\([^)]+\))?$ : does it match s
SP_character_pattern(s) ==
    LET opens == {i \in 1..Len(s) : Ch(s, i) = "("}
    IN  IF opens = {} THEN SP_NameRun(s)
        ELSE /\ SP_NameRun(SubSeq(s, 1, Min(opens) - 1))
             /\ ParenGroup(SubSeq(s, Min(opens), Len(s)))

\* parenthetical_pattern = ^\([^)]+\)$ : does it match s
SP_parenthetical_pattern(s) == ParenGroup(s)

SP_Shot(shot_id, scene_number, shot_number, scene_heading, action, dialogue, shot_type, duration) ==
    [shot_id |-> shot_id, scene_number |-> scene_number,
     shot_number |-> shot_number, scene_heading |-> scene_heading,
     action |-> action, dialogue |-> dialogue, shot_type |-> shot_type,
     duration |-> duration]

\* [d['character'] for d in blocks[a-1:b]]
SP_Characters(blocks, a, b) ==
    [k \in 1..(Min({b, Len(blocks)}) - a + 1) |-> blocks[a + k - 1].character]

SP_generate_shots(scene_number, heading, action_blocks, dialogue_blocks) ==
    LET establishing ==
            SP_Shot(Str(scene_number) \o "-1", scene_number, 1, heading,
                    IF action_blocks # <<>> THEN action_blocks[1] ELSE "",
                    <<>>, "WIDE ESTABLISHING", "5-8 seconds")
        coverage ==
            IF Len(action_blocks) > 1 \/ dialogue_blocks # <<>>
            THEN << SP_Shot(Str(scene_number) \o "-2", scene_number, 2, heading,
                            IF Len(action_blocks) > 1 THEN action_blocks[2] ELSE "",
                            SP_Characters(dialogue_blocks, 1, 2),
                            "MEDIUM", "3-5 seconds") >>
            ELSE <<>>
        closeups ==
            IF Len(dialogue_blocks) > 2
            THEN << SP_Shot(Str(scene_number) \o "-3", scene_number, 3, heading, "",
                            SP_Characters(dialogue_blocks, 3, Len(dialogue_blocks)),
                            "CLOSE-UP", "2-4 seconds") >>
            ELSE <<>>
    IN  <<establishing>> \o coverage \o closeups

SP_LoopStart == [action_blocks |-> <<>>, dialogue_blocks |-> <<>>, current_block |-> <<>>]

\* one iteration of `for line in lines[1:]` of _parse_scene
SP_ProcessLine(st, raw) ==
    LET line == Strip(raw)
    IN  IF line = "" THEN
            [st EXCEPT
                !.action_blocks = IF st.current_block # <<>>
                                  THEN Append(@, Join(st.current_block, " ")) ELSE @,
                !.current_block = <<>>]
        ELSE IF SP_character_pattern(line) THEN
            [st EXCEPT
                !.action_blocks = IF st.current_block # <<>>
                                  THEN Append(@, Join(st.current_block, " ")) ELSE @,
                !.current_block = <<>>,
                !.dialogue_blocks = Append(@, [character |-> line, lines |-> <<>>])]
        ELSE IF st.dialogue_blocks # <<>> /\ ~SP_parenthetical_pattern(line) THEN
            [st EXCEPT !.dialogue_blocks[Len(st.dialogue_blocks)].lines = Append(@, line)]
        ELSE
            [st EXCEPT !.current_block = Append(@, line)]

RECURSIVE SP_LineLoop(_, _, _)
SP_LineLoop(st, lines, i) ==
    IF i > Len(lines) THEN st
    ELSE SP_LineLoop(SP_ProcessLine(st, lines[i]), lines, i + 1)

SP_parse_scene(scene_number, scene_text) ==
    LET lines == SplitLines(Strip(scene_text))
        heading_match == SP_scene_pattern(lines[1])
        int_ext     == IF heading_match.ok THEN heading_match.int_ext ELSE "INT."
        location    == IF heading_match.ok THEN heading_match.location ELSE "UNKNOWN"
        time_of_day == IF heading_match.ok THEN heading_match.time ELSE "DAY"
        heading     == int_ext \o " " \o location \o " - " \o time_of_day
        st          == SP_LineLoop(SP_LoopStart, lines, 2)
        action_blocks == IF st.current_block # <<>>
                         THEN Append(st.action_blocks, Join(st.current_block, " "))
                         ELSE st.action_blocks
    IN  [scene_number |-> scene_number, heading |-> heading,
         location |-> location, time_of_day |-> time_of_day,
         action_blocks |-> action_blocks, dialogue_blocks |-> st.dialogue_blocks,
         shots |-> SP_generate_shots(scene_number, heading, action_blocks,
                                     st.dialogue_blocks)]

SP_create_default_scene(text) ==
    LET U == Upper(text)
        location    == IF Contains(U, "INT.") THEN "INTERIOR"
                       ELSE IF Contains(U, "EXT.") THEN "EXTERIOR" ELSE "LOCATION"
        time_of_day == IF Contains(U, "NIGHT") THEN "NIGHT"
                       ELSE IF Contains(U, "MORNING") THEN "MORNING" ELSE "DAY"
        heading     == "INT. " \o location \o " - " \o time_of_day
    IN  [scene_number |-> 1, heading |-> heading,
         location |-> location, time_of_day |-> time_of_day,
         action_blocks |-> <<text>>, dialogue_blocks |-> <<>>,
         shots |-> SP_generate_shots(1, heading, <<text>>, <<>>)]

\* the lines of the text at which scene_pattern.finditer finds a match
SP_SceneMatches(lines) == Ascending({i \in 1..Len(lines) : SP_scene_pattern(lines[i]).ok})

\* parse, lines 80 and 88-91: the matches and the text of each scene
SP_FindScenes ==
    /\ variant = "ScriptParser"
    /\ pc = "start"
    /\ LET ms   == SP_SceneMatches(content)
           full == FullText(content)
       IN  scenes' = [k \in 1..Len(ms) |->
              LET start == LineStart(content, ms[k])
                  end   == IF k < Len(ms) THEN LineStart(content, ms[k + 1])
                           ELSE Len(full)
              IN  [start |-> start, end |-> end, text |-> Slice(full, start, end)]]
    /\ pc' = "scenes"
    /\ UNCHANGED <<content, seed, processed_scenes, exc, run, first_result, variant,
                 transitions, script_voice_overs, pipeline,
                 coordinated>>

\* parse, lines 82-86 and 96: no match, the whole text is one default scene
SP_DefaultScene ==
    /\ variant = "ScriptParser"
    /\ pc = "scenes"
    /\ scenes = <<>>
    /\ processed_scenes' = <<SP_create_default_scene(FullText(content))>>
    /\ pc' = "done"
    /\ UNCHANGED <<content, seed, scenes, exc, run, first_result, variant,
                 transitions, script_voice_overs, pipeline,
                 coordinated>>

\* parse, lines 88-94: one iteration of the loop over the matches
SP_ParseScene ==
    /\ variant = "ScriptParser"
    /\ pc = "scenes"
    /\ Len(processed_scenes) < Len(scenes)
    /\ LET i == Len(processed_scenes) + 1
       IN  processed_scenes' = Append(processed_scenes, SP_parse_scene(i, scenes[i].text))
    /\ UNCHANGED <<content, seed, pc, scenes, exc, run, first_result, variant,
                 transitions, script_voice_overs, pipeline,
                 coordinated>>

\* parse, line 96: the loop is over, the scenes are returned
SP_Return ==
    /\ variant = "ScriptParser"
    /\ pc = "scenes"
    /\ scenes # <<>>
    /\ Len(processed_scenes) = Len(scenes)
    /\ pc' = "done"
    /\ UNCHANGED <<content, seed, scenes, processed_scenes, exc, run, first_result, variant,
                 transitions, script_voice_overs, pipeline,
                 coordinated>>

\* Texts for the dialogue loops: an optional heading and up to MaxBody lines
MaxBody == 4

InitVariants ==
    /\ variant \in {"ScriptParser", "AdvancedScriptParser"}
    /\ LET bodies == UNION {[1..k -> {"", "JOHN", "MARY", "Hello.", "(beat)"}] :
                                k \in 0..MaxBody}
       IN  content \in {<<"INT. OFFICE - DAY">> \o b : b \in bodies}
                       \cup {b \in bodies : Len(b) > 0}
    /\ seed = 0
    /\ pc = "start"
    /\ scenes = <<>>
    /\ processed_scenes = <<>>
    /\ exc = ""
    /\ run = 1
    /\ first_result = <<>>
    /\ transitions = <<>>
    /\ script_voice_overs = <<>>
    /\ pipeline = <<>>
    /\ coordinated = <<>>

SpecVariants == InitVariants /\ [][ExtractScenes \/ ProcessScene \/ ProcessSceneKeyError \/ Finish \/ SP_FindScenes \/ SP_DefaultScene \/ SP_ParseScene \/ SP_Return]_vars

-----------------------------------------------------------------------------
(* EnhancedScriptParser (archive/film_crew_ai_enhanced.py).  Its three      *)
(* patterns and its line loop are those of ScriptParser; its scene numbers  *)
(* and shot ids are strings.  Of a shot the model keeps the identifying     *)
(* fields, the texts and the camera's shot type and movement.               *)

\* _parse_scene, lines 296-299 and _generate_enhanced_shots, lines 319-322:
\* str(n), and f"{n // 26}{chr(65 + n % 26)}" once n is above 26
ESP_scene_num_str(scene_number) ==
    IF scene_number > 26
    THEN Str(scene_number \div 26) \o Ch(UPPERCASE, (scene_number % 26) + 1)
    ELSE Str(scene_number)

ESP_generate_enhanced_shots(scene_number, heading, action_blocks, dialogue_blocks) ==
    LET scene_num_str == ESP_scene_num_str(scene_number)
        Shot(shot_num, action, dialogue, shot_type, camera_movement, duration, type) ==
            [scene_number |-> scene_num_str,
             shot_number |-> Pad3(shot_num),
             shot_id |-> scene_num_str \o "-" \o Pad3(shot_num),
             scene_heading |-> heading, action |-> action, dialogue |-> dialogue,
             shot_type |-> shot_type, camera_movement |-> camera_movement,
             duration |-> duration, type |-> type]
        establishing ==
            Shot(1, IF action_blocks # <<>> THEN action_blocks[1] ELSE "", <<>>,
                 "WIDE ESTABLISHING", "slow push in", "5-8 seconds", "establishing")
        nd == Min({3, Len(dialogue_blocks)})
        dialogue_shots ==
            [i \in 1..nd |->
                Shot(1 + i, "", <<dialogue_blocks[i].character>>,
                     IF i = 1 THEN "MEDIUM" ELSE "CLOSE-UP",
                     "subtle drift", "3-5 seconds", "dialogue")]
        na == IF Len(action_blocks) > 1 THEN Min({2, Len(action_blocks) - 1}) ELSE 0
        action_shots ==
            [i \in 1..na |->
                Shot(1 + nd + i, action_blocks[1 + i], <<>>,
                     IF i = 1 THEN "MEDIUM" ELSE "CLOSE-UP",
                     IF Contains(Lower(action_blocks[1 + i]), "run")
                     THEN "handheld" ELSE "static",
                     "2-4 seconds", "action")]
    IN  <<establishing>> \o dialogue_shots \o action_shots

ESP_parse_scene(scene_number, scene_text) ==
    LET lines == SplitLines(Strip(scene_text))
        heading_match == SP_scene_pattern(lines[1])
        int_ext     == IF heading_match.ok THEN heading_match.int_ext ELSE "INT."
        location    == IF heading_match.ok THEN heading_match.location ELSE "UNKNOWN"
        time_of_day == IF heading_match.ok THEN heading_match.time ELSE "DAY"
        heading     == int_ext \o " " \o location \o " - " \o time_of_day
        st          == SP_LineLoop(SP_LoopStart, lines, 2)
        action_blocks == IF st.current_block # <<>>
                         THEN Append(st.action_blocks, Join(st.current_block, " "))
                         ELSE st.action_blocks
    IN  [scene_number |-> ESP_scene_num_str(scene_number), heading |-> heading,
         location |-> location, time_of_day |-> time_of_day,
         action_blocks |-> action_blocks, dialogue_blocks |-> st.dialogue_blocks,
         shots |-> ESP_generate_enhanced_shots(scene_number, heading, action_blocks,
                                               st.dialogue_blocks)]

ESP_create_default_scene(text) ==
    LET U == Upper(text)
        location    == IF Contains(U, "INT.") THEN "INTERIOR"
                       ELSE IF Contains(U, "EXT.") THEN "EXTERIOR" ELSE "LOCATION"
        time_of_day == IF Contains(U, "NIGHT") THEN "NIGHT"
                       ELSE IF Contains(U, "MORNING") THEN "MORNING" ELSE "DAY"
        heading     == "INT. " \o location \o " - " \o time_of_day
    IN  [scene_number |-> "1", heading |-> heading,
         location |-> location, time_of_day |-> time_of_day,
         action_blocks |-> <<text>>, dialogue_blocks |-> <<>>,
         shots |-> ESP_generate_enhanced_shots(1, heading, <<text>>, <<>>)]

\* parse, lines 229-236: the matches of scene_pattern; without a match the
\* whole text is one default scene and parse returns
ESP_FindScenes ==
    /\ variant = "EnhancedScriptParser"
    /\ pc = "start"
    /\ LET ms   == SP_SceneMatches(content)
           full == FullText(content)
       IN  /\ scenes' = [k \in 1..Len(ms) |->
                 LET start == LineStart(content, ms[k])
                     end   == IF k < Len(ms) THEN LineStart(content, ms[k + 1])
                              ELSE Len(full)
                 IN  [start |-> start, end |-> end, text |-> Slice(full, start, end)]]
           /\ processed_scenes' = IF ms = <<>> THEN <<ESP_create_default_scene(full)>>
                                  ELSE <<>>
           /\ pc' = IF ms = <<>> THEN "done" ELSE "scenes"
    /\ UNCHANGED <<content, seed, exc, run, first_result, variant,
                 transitions, script_voice_overs, pipeline,
                 coordinated>>

\* parse, lines 237-247: one iteration of the loop over the matches; after
\* the last one the scenes are returned
ESP_ParseScene ==
    /\ variant = "EnhancedScriptParser"
    /\ pc = "scenes"
    /\ Len(processed_scenes) < Len(scenes)
    /\ LET i == Len(processed_scenes) + 1
       IN  /\ processed_scenes' = Append(processed_scenes, ESP_parse_scene(i, scenes[i].text))
           /\ pc' = IF i = Len(scenes) THEN "done" ELSE "scenes"
    /\ UNCHANGED <<content, seed, scenes, exc, run, first_result, variant,
                 transitions, script_voice_overs, pipeline,
                 coordinated>>

\* Scripts of up to MaxScenes scenes, each a heading and the same body (a
\* long script has short scenes), and texts without a heading
MaxScenes == 28

InitEnhanced ==
    /\ variant = "EnhancedScriptParser"
    /\ LET short  == {<<>>, <<"JOHN">>}
           bodies == {<<"JOHN", "Hello.", "">>,
                      <<"He waits.", "", "She runs to the door.", "", "He nods.", "", "Rain.">>,
                      <<"MARY (O.S.)", "(beat)", "Who is it?", "JOHN", "Me.", "MARY", "Oh.", "JOHN", "Yes.">>}
           Script(b, n) == [k \in 1..(n * (1 + Len(b))) |->
                               (<<"INT. OFFICE - DAY">> \o b)[((k - 1) % (1 + Len(b))) + 1]]
       IN  content \in {Script(b, n) : b \in short, n \in 1..MaxScenes}
                       \cup {Script(b, n) : b \in bodies, n \in 1..2}
                       \cup {<<"He waits in the morning.">>, <<"JOHN", "Hello.">>}
    /\ seed = 0
    /\ pc = "start"
    /\ scenes = <<>>
    /\ processed_scenes = <<>>
    /\ exc = ""
    /\ run = 1
    /\ first_result = <<>>
    /\ transitions = <<>>
    /\ script_voice_overs = <<>>
    /\ pipeline = <<>>
    /\ coordinated = <<>>

SpecEnhanced == InitEnhanced /\ [][ESP_FindScenes \/ ESP_ParseScene]_vars

-----------------------------------------------------------------------------
(* FilmCrewAIPipeline (film_crew_ai_main.py).  A script_path is the record  *)
(* [stem, suffix, exists, readable, text]: name and extension of the file,  *)
(* whether it is on disk, whether the reader can decode it, and its lines.  *)
(* The processors of the three phases are outside the model: each is an     *)
(* outcome chosen when the phase runs.                                      *)

SUPPORTED_FORMATS == {".txt", ".pdf", ".doc", ".docx"}

\* validate_input, lines 55-66
ValidateInput_ExistenceOnly(script_path) ==
    IF ~script_path.exists THEN FALSE
    ELSE TRUE

validate_input(script_path) ==
    IF ~script_path.exists THEN FALSE
    ELSE IF Lower(script_path.suffix) \notin SUPPORTED_FORMATS THEN FALSE
    ELSE TRUE

\* EnhancedDocumentReader.read_file raises: an extension it does not know
\* (ValueError), or a file its decoder cannot read
ReadFileRaises(script_path) ==
    \/ Lower(script_path.suffix) \notin {".txt", ".pdf", ".doc", ".docx"}
    \/ ~script_path.exists
    \/ ~script_path.readable

\* detect_script_format, lines 68-83
detect_script_format(script_path) ==
    IF ReadFileRaises(script_path) THEN "traditional"
    ELSE IF \/ Contains(Lower(Prefix(FullText(script_path.text), 1000)), "video:")
            \/ Contains(Lower(Prefix(FullText(script_path.text), 1000)), "vo:")
         THEN "vignette"
    ELSE IF Contains(Lower(script_path.stem \o script_path.suffix), "vignette")
         THEN "vignette"
    ELSE "traditional"

\* process_script, lines 114-118: validation, and the early return
PipelineValidate ==
    /\ variant = "FilmCrewAIPipeline"
    /\ pipeline.pc = "start"
    /\ pipeline' = IF ~validate_input(pipeline.script_path)
                   THEN [pipeline EXCEPT !.pc = "returned", !.result = "None"]
                   ELSE [pipeline EXCEPT !.pc = "detect"]
    /\ UNCHANGED <<content, seed, pc, scenes, processed_scenes, exc, run, first_result,
                   variant, transitions, script_voice_overs,
                   coordinated>>

\* process_script, lines 120-122
PipelineDetect ==
    /\ variant = "FilmCrewAIPipeline"
    /\ pipeline.pc = "detect"
    /\ pipeline' = [pipeline EXCEPT
                       !.pc = "output",
                       !.format_type = detect_script_format(pipeline.script_path),
                       !.calls = Append(@, "detect_script_format")]
    /\ UNCHANGED <<content, seed, pc, scenes, processed_scenes, exc, run, first_result,
                   variant, transitions, script_voice_overs,
                   coordinated>>

\* process_script, lines 124-125 (create_output_directory, lines 85-96)
PipelineCreateOutputDirectory ==
    /\ variant = "FilmCrewAIPipeline"
    /\ pipeline.pc = "output"
    /\ pipeline' = [pipeline EXCEPT
                       !.pc = "phase1",
                       !.calls = Append(@, "create_output_directory")]
    /\ UNCHANGED <<content, seed, pc, scenes, processed_scenes, exc, run, first_result,
                   variant, transitions, script_voice_overs,
                   coordinated>>

\* process_script, lines 127-145 and 180-184: the processor of the detected
\* format runs; no result directory, or an exception, ends the call with "None"
PipelinePhase1 ==
    /\ variant = "FilmCrewAIPipeline"
    /\ pipeline.pc = "phase1"
    /\ \E outcome \in {"result_dir", "None", "raise"} :
         pipeline' = [pipeline EXCEPT
                         !.pc = IF outcome = "result_dir" THEN "phase2" ELSE "returned",
                         !.result = IF outcome = "result_dir" THEN @ ELSE "None",
                         !.result_dir = IF outcome = "result_dir" THEN "result_dir" ELSE @,
                         !.calls = Append(@, IF pipeline.format_type = "vignette"
                                             THEN "VignetteFilmCrewProcessor"
                                             ELSE "AdvancedFilmCrewProcessor")]
    /\ UNCHANGED <<content, seed, pc, scenes, processed_scenes, exc, run, first_result,
                   variant, transitions, script_voice_overs,
                   coordinated>>

\* PipelinePhase2 with the exception of the phase reaching the outer handler
\* of lines 180-184: the call returns None
PipelinePhase2_ExceptionEndsCall ==
    /\ variant = "FilmCrewAIPipeline"
    /\ pipeline.pc = "phase2"
    /\ \E generate_enhanced \in BOOLEAN, raised \in BOOLEAN :
         pipeline' = [pipeline EXCEPT
                         !.pc = IF generate_enhanced /\ raised THEN "returned" ELSE "phase3",
                         !.result = IF generate_enhanced /\ raised THEN "None" ELSE @,
                         !.calls = IF generate_enhanced
                                   THEN Append(@, "EnhancedVeo3Processor") ELSE @,
                         !.errors = IF generate_enhanced /\ raised
                                    THEN Append(@, "enhanced") ELSE @]
    /\ UNCHANGED <<content, seed, pc, scenes, processed_scenes, exc, run, first_result,
                   variant, transitions, script_voice_overs,
                   coordinated>>

\* process_script, lines 147-158: an exception of the phase is logged only
PipelinePhase2 ==
    /\ variant = "FilmCrewAIPipeline"
    /\ pipeline.pc = "phase2"
    /\ \E generate_enhanced \in BOOLEAN, raised \in BOOLEAN :
         pipeline' = [pipeline EXCEPT
                         !.pc = "phase3",
                         !.calls = IF generate_enhanced
                                   THEN Append(@, "EnhancedVeo3Processor") ELSE @,
                         !.errors = IF generate_enhanced /\ raised
                                    THEN Append(@, "enhanced") ELSE @]
    /\ UNCHANGED <<content, seed, pc, scenes, processed_scenes, exc, run, first_result,
                   variant, transitions, script_voice_overs,
                   coordinated>>

\* process_script, lines 160-178: the natural phase, then the return
PipelinePhase3 ==
    /\ variant = "FilmCrewAIPipeline"
    /\ pipeline.pc = "phase3"
    /\ \E generate_natural \in BOOLEAN, raised \in BOOLEAN :
         pipeline' = [pipeline EXCEPT
                         !.pc = "returned",
                         !.result = pipeline.result_dir,
                         !.calls = IF generate_natural
                                   THEN Append(@, "Veo3PromptProcessor") ELSE @,
                         !.errors = IF generate_natural /\ raised
                                    THEN Append(@, "natural") ELSE @]
    /\ UNCHANGED <<content, seed, pc, scenes, processed_scenes, exc, run, first_result,
                   variant, transitions, script_voice_overs,
                   coordinated>>

\* Scripts on disk: up to MaxScriptLines lines of a traditional screenplay
\* (heading, voice-over cue, dialogue, an action line with a colon), of a
\* vignette (Video: and VO: segments), or a note of 1000 characters
MaxScriptLines == 2

ScriptVocabulary ==
    LET note20   == "Notes for the crew. "
        note100  == note20 \o note20 \o note20 \o note20 \o note20
        note500  == note100 \o note100 \o note100 \o note100 \o note100
    IN  {"INT. OFFICE - DAY", "SARAH (V.O.)", "Hello.", "She plays the video: static.",
         "Video: Wide shot of office", "VO: The future is here", note500 \o note500}

\* a file on disk has a text and may be unreadable; a missing file has neither
InitPipeline ==
    /\ variant = "FilmCrewAIPipeline"
    /\ coordinated = <<>>
    /\ pipeline \in
         [script_path :
              [stem : {"script", "My_Vignette"},
               suffix : {".txt", ".TXT", ".pdf", ".xyz", ""},
               exists : {TRUE}, readable : BOOLEAN,
               text : UNION {[1..k -> ScriptVocabulary] : k \in 1..MaxScriptLines}]
              \cup
              [stem : {"script", "My_Vignette"},
               suffix : {".txt", ".TXT", ".pdf", ".xyz", ""},
               exists : {FALSE}, readable : {FALSE}, text : {<<>>}],
          pc : {"start"}, format_type : {""}, calls : {<<>>}, errors : {<<>>},
          result_dir : {""}, result : {""}]
    /\ content = <<>>
    /\ seed = 0
    /\ pc = "idle"
    /\ scenes = <<>>
    /\ processed_scenes = <<>>
    /\ exc = ""
    /\ run = 1
    /\ first_result = <<>>
    /\ transitions = <<>>
    /\ script_voice_overs = <<>>

SpecPipeline == InitPipeline /\ [][PipelineValidate \/ PipelineDetect \/ PipelineCreateOutputDirectory \/ PipelinePhase1 \/ PipelinePhase2 \/ PipelinePhase3]_vars

-----------------------------------------------------------------------------
(* CoordinatedAgentSystem (archive/film_crew_ai_fixed.py) and the agents of  *)
(* archive/film_crew_ai_enhanced.py.  A dict is a function on its keys; {}   *)
(* is <<>>.                      `coordinated` is the record                   *)
(* [pc, shot, breakdown, futures, collected, agent_results, shared_context,  *)
(* result]: futures maps each parallel agent to the state of its future,     *)
(* collected is the order in which as_completed handed the futures over.     *)
(* Of an agent's result the model keeps the keys the system and the prompt   *)
(* synthesis read.                                                           *)

\* process_shot_coordinated, lines 419-420
PARALLEL_AGENTS == {"character_analysis", "environment_props", "cinematography", "lighting_mood"}

\* ScriptBreakdownAgent.process, lines 626-654
CAS_script_breakdown(shot) ==
    [scene_id |-> shot.scene_number, shot_id |-> shot.shot_id,
     shot_type |-> shot.shot_type, duration |-> shot.duration,
     narrative_function |->
         IF Contains(shot.type, "establishing") THEN "establish_setting"
         ELSE IF Contains(shot.type, "dialogue") THEN "character_interaction"
         ELSE IF Contains(shot.type, "action") THEN "advance_plot"
         ELSE "transition",
     emotional_beat |->
         LET emotions == SelectSeq(shot.characters, LAMBDA c : c.emotional_state # "")
         IN  IF emotions # <<>>
             THEN Join([k \in 1..Len(emotions) |-> emotions[k].emotional_state], ", ")
             ELSE "neutral"]

\* _process_with_context: self.agents[agent_name].process(scene, shot, breakdown),
\* the process methods of film_crew_ai_enhanced.py, lines 663-678, 700-710,
\* 764-775 and 845-859
CAS_process_with_context(agent_name, shot, breakdown) ==
    IF agent_name = "character_analysis" THEN
        [characters |->
            [k \in 1..Len(shot.characters) |->
                [name |-> shot.characters[k].name,
                 emotional_state |->
                     IF shot.characters[k].emotional_state # ""
                     THEN shot.characters[k].emotional_state
                     ELSE breakdown.emotional_beat]]]
    ELSE IF agent_name = "environment_props" THEN
        [location |-> shot.location, time_of_day |-> shot.time_of_day,
         atmosphere |->
             IF Contains(Lower(breakdown.emotional_beat), "tense")
             THEN "tense, charged atmosphere"
             ELSE IF Contains(Lower(breakdown.emotional_beat), "sad")
             THEN "melancholic, subdued atmosphere"
             ELSE IF Contains(Lower(breakdown.emotional_beat), "happy")
             THEN "warm, inviting atmosphere"
             ELSE "neutral, realistic atmosphere"]
    ELSE IF agent_name = "cinematography" THEN
        [shot_type |-> shot.shot_type, camera_movement |-> shot.camera_movement]
    ELSE
        [mood |-> IF shot.lighting_mood # "" THEN shot.lighting_mood
                  ELSE breakdown.emotional_beat]

\* PromptSynthesisAgent.process, lines 958-1020: the parts of the prompt that
\* are made of the kept keys
CAS_prompt_synthesis(shot, all_results) ==
    LET Get(key, field, default) ==
            IF key \in DOMAIN all_results /\ field \in DOMAIN all_results[key]
            THEN all_results[key][field] ELSE default
        characters == IF "character_analysis" \in DOMAIN all_results
                         /\ "characters" \in DOMAIN all_results["character_analysis"]
                      THEN all_results["character_analysis"].characters ELSE <<>>
    IN  "[CAMERA] " \o Get("cinematography", "shot_type", "MEDIUM")
            \o " shot, "
            \o Get("cinematography", "camera_movement", "static")
        \o " | "
        \o (IF characters # <<>>
            THEN "[SUBJECT] "
                 \o Join([k \in 1..Len(characters) |->
                            characters[k].name \o " ("
                                \o characters[k].emotional_state \o ")"], ", ")
                 \o (IF shot.action # "" THEN ", " \o Prefix(shot.action, 100) ELSE "")
            ELSE "[SUBJECT] " \o (IF shot.action # "" THEN Prefix(shot.action, 200)
                                  ELSE "Environmental shot"))
        \o " | "
        \o "[ENVIRONMENT] " \o Get("environment_props", "location", "location")
            \o ", " \o Get("environment_props", "time_of_day", "day")
            \o " lighting, "
            \o Get("environment_props", "atmosphere", "realistic atmosphere")
        \o " | "
        \o "[STYLE] Cinematic, professional filmmaking, "
            \o Get("lighting_mood", "mood", "neutral")
            \o " mood, photorealistic rendering, high production value"
        \o " | "
        \o "[DURATION] " \o shot.duration

\* _update_shared_context, lines 457-466: no result of the cinematography
\* agent has a key 'camera'
CAS_update_shared_context(shared_context, agent_name, result) ==
    IF agent_name = "character_analysis" /\ "characters" \in DOMAIN result
    THEN ("active_characters" :> result.characters) @@ shared_context
    ELSE IF agent_name = "environment_props" /\ "atmosphere" \in DOMAIN result
    THEN ("scene_atmosphere" :> result.atmosphere) @@ shared_context
    ELSE IF agent_name = "cinematography" /\ "camera" \in DOMAIN result
    THEN ("camera_setup" :> result) @@ shared_context
    ELSE IF agent_name = "lighting_mood" /\ "mood" \in DOMAIN result
    THEN ("lighting_mood" :> result.mood) @@ shared_context
    ELSE shared_context

\* _ensure_consistency, lines 468-483; the prompt is the one value of
\* agent_results that is no dict
CAS_ensure_consistency(agent_results) ==
    LET characters ==
            IF "character_analysis" \in DOMAIN agent_results
               /\ "characters" \in DOMAIN agent_results["character_analysis"]
            THEN agent_results["character_analysis"].characters ELSE <<>>
        same_characters ==
            IF "character_analysis" \in DOMAIN agent_results
            THEN [k \in DOMAIN agent_results |->
                    IF k # "veo3_prompt" /\ "characters" \in DOMAIN agent_results[k]
                    THEN [agent_results[k] EXCEPT !.characters = characters]
                    ELSE agent_results[k]]
            ELSE agent_results
    IN  IF "lighting_mood" \in DOMAIN same_characters
           /\ "cinematography" \in DOMAIN same_characters
        THEN [same_characters EXCEPT !["cinematography"] =
                 ("mood_influence" :>
                      IF "mood" \in DOMAIN same_characters["lighting_mood"]
                      THEN same_characters["lighting_mood"].mood ELSE "neutral") @@ @]
        ELSE same_characters

\* process_shot_coordinated, lines 401-429: the results of the previous shot
\* are cleared, the breakdown is stored and shared, the four tasks are
\* submitted
CAS_Start ==
    /\ variant = "CoordinatedAgentSystem"
    /\ coordinated.pc = "start"
    /\ LET breakdown == CAS_script_breakdown(coordinated.shot)
       IN  coordinated' = [coordinated EXCEPT
               !.pc = "collecting",
               !.breakdown = breakdown,
               !.agent_results = "breakdown" :> breakdown,
               !.shared_context = breakdown @@ @,
               !.futures = [a \in PARALLEL_AGENTS |->
                               [state |-> "running", result |-> <<>>]]]
    /\ UNCHANGED <<content, seed, pc, scenes, processed_scenes, exc, run, first_result,
                   variant, transitions, script_voice_overs, pipeline>>

\* a worker thread of the executor: the task of one agent ends, with its
\* result or with an exception
CAS_AgentFinish ==
    /\ variant = "CoordinatedAgentSystem"
    /\ coordinated.pc = "collecting"
    /\ \E a \in PARALLEL_AGENTS, raised \in BOOLEAN :
          /\ coordinated.futures[a].state = "running"
          /\ coordinated' = [coordinated EXCEPT !.futures[a] =
                 IF raised THEN [state |-> "raised", result |-> <<>>]
                 ELSE [state |-> "finished",
                       result |-> CAS_process_with_context(
                                      a, coordinated.shot, coordinated.breakdown)]]
    /\ UNCHANGED <<content, seed, pc, scenes, processed_scenes, exc, run, first_result,
                   variant, transitions, script_voice_overs, pipeline>>

\* CAS_Collect leaving the loop after the first future
CAS_Collect_FirstCompleted ==
    /\ variant = "CoordinatedAgentSystem"
    /\ coordinated.pc = "collecting"
    /\ \E a \in PARALLEL_AGENTS :
          /\ coordinated.futures[a].state # "running"
          /\ \A n \in 1..Len(coordinated.collected) : coordinated.collected[n] # a
          /\ coordinated' = [coordinated EXCEPT
                 !.collected = Append(@, a),
                 !.agent_results = (a :> coordinated.futures[a].result) @@ @,
                 !.shared_context =
                     IF coordinated.futures[a].state = "finished"
                     THEN CAS_update_shared_context(@, a, coordinated.futures[a].result)
                     ELSE @,
                 !.pc = "synthesis"]
    /\ UNCHANGED <<content, seed, pc, scenes, processed_scenes, exc, run, first_result,
                   variant, transitions, script_voice_overs, pipeline>>

\* process_shot_coordinated, lines 431-441: one iteration of
\* `for future in as_completed(futures)`; as_completed hands over a future
\* that is done and was not handed over before, and ends after the fourth
CAS_Collect ==
    /\ variant = "CoordinatedAgentSystem"
    /\ coordinated.pc = "collecting"
    /\ \E a \in PARALLEL_AGENTS :
          /\ coordinated.futures[a].state # "running"
          /\ \A n \in 1..Len(coordinated.collected) : coordinated.collected[n] # a
          /\ coordinated' = [coordinated EXCEPT
                 !.collected = Append(@, a),
                 !.agent_results = (a :> coordinated.futures[a].result) @@ @,
                 !.shared_context =
                     IF coordinated.futures[a].state = "finished"
                     THEN CAS_update_shared_context(@, a, coordinated.futures[a].result)
                     ELSE @,
                 !.pc = IF Len(coordinated.collected) + 1 = Cardinality(PARALLEL_AGENTS)
                        THEN "synthesis" ELSE "collecting"]
    /\ UNCHANGED <<content, seed, pc, scenes, processed_scenes, exc, run, first_result,
                   variant, transitions, script_voice_overs, pipeline>>

\* process_shot_coordinated, lines 443-450: the prompt is synthesized from
\* agent_results and stored in it, _ensure_consistency runs, agent_results
\* is returned
CAS_SynthesizeAndReturn ==
    /\ variant = "CoordinatedAgentSystem"
    /\ coordinated.pc = "synthesis"
    /\ LET final_prompt == CAS_prompt_synthesis(coordinated.shot, coordinated.agent_results)
           consistent   == CAS_ensure_consistency(
                               ("veo3_prompt" :> final_prompt) @@ coordinated.agent_results)
       IN  coordinated' = [coordinated EXCEPT
               !.pc = "returned", !.agent_results = consistent, !.result = consistent]
    /\ UNCHANGED <<content, seed, pc, scenes, processed_scenes, exc, run, first_result,
                   variant, transitions, script_voice_overs, pipeline>>

\* a shot of EnhancedScriptParser: establishing, dialogue (with and without
\* an emotional state in the cue) or action; the system is new, or has
\* processed a shot before
InitCoordinated ==
    /\ variant = "CoordinatedAgentSystem"
    /\ LET shots ==
            { [scene_number |-> "1", shot_id |-> "1-001", type |-> "establishing",
               shot_type |-> "WIDE ESTABLISHING", camera_movement |-> "slow push in",
               duration |-> "5-8 seconds", action |-> "He waits.", characters |-> <<>>,
               location |-> "OFFICE", time_of_day |-> "DAY",
               lighting_mood |-> "atmospheric"],
              [scene_number |-> "1", shot_id |-> "1-002", type |-> "dialogue",
               shot_type |-> "MEDIUM", camera_movement |-> "subtle drift",
               duration |-> "3-5 seconds", action |-> "",
               characters |-> <<[name |-> "JOHN", emotional_state |-> "tense"]>>,
               location |-> "OFFICE", time_of_day |-> "DAY",
               lighting_mood |-> "natural"],
              [scene_number |-> "1", shot_id |-> "1-003", type |-> "dialogue",
               shot_type |-> "CLOSE-UP", camera_movement |-> "subtle drift",
               duration |-> "3-5 seconds", action |-> "",
               characters |-> <<[name |-> "MARY", emotional_state |-> ""]>>,
               location |-> "OFFICE", time_of_day |-> "NIGHT",
               lighting_mood |-> ""],
              [scene_number |-> "1", shot_id |-> "1-004", type |-> "action",
               shot_type |-> "MEDIUM", camera_movement |-> "handheld",
               duration |-> "2-4 seconds", action |-> "She runs to the door.",
               characters |-> <<>>,
               location |-> "OFFICE", time_of_day |-> "DAY",
               lighting_mood |-> "atmospheric"] }
       IN  coordinated \in
             [pc : {"start"}, shot : shots, breakdown : {<<>>},
              futures : {<<>>}, collected : {<<>>},
              agent_results : {<<>>,
                               "character_analysis" :> [characters |-> <<>>]},
              shared_context : {<<>>, "lighting_mood" :> "natural"},
              result : {<<>>}]
    /\ content = <<>>
    /\ seed = 0
    /\ pc = "idle"
    /\ scenes = <<>>
    /\ processed_scenes = <<>>
    /\ exc = ""
    /\ run = 1
    /\ first_result = <<>>
    /\ transitions = <<>>
    /\ script_voice_overs = <<>>
    /\ pipeline = <<>>

SpecCoordinated == InitCoordinated /\ [][CAS_Start \/ CAS_AgentFinish \/ CAS_Collect \/ CAS_SynthesizeAndReturn]_vars

-----------------------------------------------------------------------------
(* Properties.  The reference notions below are stated on the lines of the *)
(* text, independently of the parser's regular expressions.                *)

\* a well-formed scene heading of the vocabulary
HeadingLine(l) ==
    /\ StartsWith(l, "INT. ") \/ StartsWith(l, "EXT. ")
    /\ Contains(l, " - ")

HeadingLines == Ascending({i \in 1..Len(content) : HeadingLine(content[i])})

\* the 0-based offset of line i in the text
OffsetOfLine(i) == IF i = 1 THEN 0 ELSE Len(Join(SubSeq(content, 1, i - 1), "\n")) + 1

DecimalNames == <<"1", "2", "3", "4", "5", "6", "7", "8", "9">>

ShotNumberNames ==
    <<"001", "002", "003", "004", "005", "006", "007", "008", "009", "010",
      "011", "012", "013", "014", "015", "016">>

\* C1: a text with N >= 1 heading lines parses, without an exception, to N
\* scenes in document order; scene i is numbered str(i), carries the heading
\* of the i-th heading line and spans from that line's start to the start of
\* the next heading line, or to the end of the text.
C1_ScenesFollowHeadings ==
    LET hl == HeadingLines
        N  == Len(hl)
    IN  N >= 1 =>
        /\ pc # "raised"
        /\ pc \in {"scenes", "done"} =>
            /\ Len(scenes) = N
            /\ \A i \in 1..N :
                /\ scenes[i].start = OffsetOfLine(hl[i])
                /\ scenes[i].end = IF i < N THEN OffsetOfLine(hl[i + 1])
                                   ELSE Len(Join(content, "\n"))
                /\ scenes[i].text =
                       IF i < N
                       THEN Join(SubSeq(content, hl[i], hl[i + 1] - 1), "\n") \o "\n"
                       ELSE Join(SubSeq(content, hl[i], Len(content)), "\n")
        /\ pc = "done" => Len(processed_scenes) = N
        /\ \A i \in 1..Len(processed_scenes) :
                /\ processed_scenes[i].scene_number = DecimalNames[i]
                /\ processed_scenes[i].heading = content[hl[i]]

\* C1 witness: two scenes were returned for a text that begins before its
\* first heading
C1_Witness ==
    /\ pc = "done"
    /\ Len(processed_scenes) = 2
    /\ scenes[1].start > 0
    /\ scenes[2].start > scenes[1].start

\* C2: a text without any heading parses to exactly one scene, numbered "1",
\* that spans the whole text, and no exception is raised.
C2_NoHeadingOneScene ==
    HeadingLines = <<>> =>
        /\ pc # "raised"
        /\ pc \in {"scenes", "done"} =>
              Len(scenes) = 1 /\ scenes[1].text = Join(content, "\n")
        /\ pc = "done" =>
              Len(processed_scenes) = 1 /\ processed_scenes[1].scene_number = "1"

\* the span of scene i holds nothing but its heading
HeadingOnly(i) == Strip(scenes[i].text) = scenes[i].heading

\* C3: every returned scene has at least one shot; a scene with no content
\* after its heading has empty blocks and exactly one, establishing, shot.
C3_EverySceneHasAShot ==
    \A i \in 1..Len(processed_scenes) :
        LET sc == processed_scenes[i]
        IN  /\ Len(sc.shots) >= 1
            /\ HeadingOnly(i) =>
                  /\ sc.action_blocks = <<>> /\ sc.dialogue_blocks = <<>>
                  /\ Len(sc.shots) = 1
                  /\ sc.shots[1].shot_type = "WIDE ESTABLISHING"

\* the rule a shot was emitted by, 1 establishing .. 5 closing
EmissionRank(shot) ==
    IF shot.shot_type = "WIDE ESTABLISHING" THEN 1
    ELSE IF shot.camera_movement = "pull back or static" THEN 5
    ELSE IF shot.shot_type = "VARIOUS" THEN 4
    ELSE IF shot.camera_movement = "subtle drift" THEN 3
    ELSE 2

\* C4: the k-th shot of a scene has shot_number k in three digits and shot_id
\* "<scene_number>-<shot_number>"; the shots are in emission order
\* (establishing, action, dialogue, voice-over, closing) and no two shots of
\* the script share a shot_id.
C4_ShotNumbersContiguous ==
    /\ \A i \in 1..Len(processed_scenes) :
         LET sc == processed_scenes[i]
         IN  \A k \in 1..Len(sc.shots) :
                /\ sc.shots[k].shot_number = ShotNumberNames[k]
                /\ sc.shots[k].shot_id = sc.scene_number \o "-" \o ShotNumberNames[k]
                /\ \A j \in 1..(k - 1) :
                      EmissionRank(sc.shots[j]) <= EmissionRank(sc.shots[k])
    /\ \A i, j \in 1..Len(processed_scenes) :
         \A k \in 1..Len(processed_scenes[i].shots) :
            \A m \in 1..Len(processed_scenes[j].shots) :
                processed_scenes[i].shots[k].shot_id = processed_scenes[j].shots[m].shot_id
                    => (i = j /\ k = m)

\* C4 witness: a scene whose shots are an establishing shot, action shots,
\* several dialogue shots and a closing shot
C4_Witness ==
    /\ pc = "done"
    /\ \E i \in 1..Len(processed_scenes) :
         LET sh == processed_scenes[i].shots
         IN  /\ Len(sh) >= 6
             /\ EmissionRank(sh[1]) = 1
             /\ EmissionRank(sh[2]) = 2
             /\ EmissionRank(sh[Len(sh) - 1]) = 3
             /\ EmissionRank(sh[Len(sh)]) = 5

\* C5: the second parse of a text returns what the first parse returned.
C5_SecondParseEqualsFirst ==
    (run = 2 /\ pc = "done") => processed_scenes = first_result

\* C6: no text makes segmentation or scene processing raise.
C6_NeverRaises == pc # "raised" /\ exc = ""

\* the vocabulary's character cues and parentheticals
CueLine(l) == l \in {"JOHN", "MARY"}
ParentheticalLine(l) == l = "(beat)"

\* the dialogue blocks of a scene body: a cue opens a block, the dialogue lines
\* after it are the block's lines, a blank line or the next cue closes it
RECURSIVE ExpectedBlocks(_, _, _, _)
ExpectedBlocks(body, i, blocks, open) ==
    IF i > Len(body) THEN blocks
    ELSE IF body[i] = "" THEN ExpectedBlocks(body, i + 1, blocks, FALSE)
    ELSE IF CueLine(body[i])
         THEN ExpectedBlocks(body, i + 1,
                  Append(blocks, [character |-> body[i], lines |-> <<>>]), TRUE)
    ELSE IF open /\ ~ParentheticalLine(body[i])
         THEN ExpectedBlocks(body, i + 1,
                  [blocks EXCEPT ![Len(blocks)].lines = Append(@, body[i])], TRUE)
    ELSE ExpectedBlocks(body, i + 1, blocks, open)

\* C7: in every parser variant the dialogue blocks of a scene are one block per
\* cue line, each holding the dialogue lines that follow the cue up to the
\* next blank line or cue; a line after a blank line is appended to no block.
C7_BlankLineClosesDialogue ==
    (pc = "done" /\ HeadingLine(content[1])) =>
        processed_scenes[1].dialogue_blocks = ExpectedBlocks(Tail(content), 1, <<>>, FALSE)

\* C8: the two-line text of a voice-over cue and a narration line parses to
\* one VoiceOver (the cue's name, the narration, "during_scene") and to no
\* dialogue block.
C8_VoiceOverCueAndNarration ==
    (content = <<"SARAH (V.O.)", "Every morning starts the same.">> /\ pc \in {"done", "raised"}) =>
        /\ pc = "done"
        /\ Len(processed_scenes) = 1
        /\ processed_scenes[1].dialogue_blocks = <<>>
        /\ Len(processed_scenes[1].voice_overs) = 1
        /\ processed_scenes[1].voice_overs[1].character = "SARAH"
        /\ processed_scenes[1].voice_overs[1].text = "Every morning starts the same."
        /\ processed_scenes[1].voice_overs[1].timing = "during_scene"

\* C9: an off-screen cue never creates a dialogue block, and the line after
\* it is recorded as a VoiceOver with timing "during_scene".
C9_OffScreenCueIsVoiceOver ==
    \A i \in 1..Len(processed_scenes) :
        LET sc == processed_scenes[i]
        IN  /\ \A b \in 1..Len(sc.dialogue_blocks) :
                  ~EndsWith(sc.dialogue_blocks[b].character, "(O.S.)")
            /\ EndsWith(scenes[i].text, "MARY (O.S.)\nHello.") =>
                  \E v \in 1..Len(sc.voice_overs) :
                      /\ sc.voice_overs[v].text = "Hello."
                      /\ sc.voice_overs[v].timing = "during_scene"

DialogueShots(sc) == {k \in 1..Len(sc.shots) : EmissionRank(sc.shots[k]) = 3}

\* four consecutive exchanges between two characters: blocks a b a b
FourExchanges(blocks) ==
    \E s \in 1..(Len(blocks) - 3) :
        /\ blocks[s].character # blocks[s + 1].character
        /\ \A j \in 2..3 : blocks[s + j].character = blocks[s + j - 2].character

\* C10: a dialogue shot holds at most 2 distinct characters and at most 3
\* dialogue entries; four consecutive two-character exchanges are spread over
\* more than one dialogue shot.
C10_DialogueShotCaps ==
    \A i \in 1..Len(processed_scenes) :
        LET sc == processed_scenes[i]
        IN  /\ \A k \in DialogueShots(sc) :
                  /\ Cardinality({sc.shots[k].characters_in_frame[c] :
                          c \in 1..Len(sc.shots[k].characters_in_frame)}) <= 2
                  /\ Len(sc.shots[k].dialogue) <= 3
            /\ FourExchanges(sc.dialogue_blocks) =>
                  /\ Cardinality(DialogueShots(sc)) > 1
                  /\ \A k \in DialogueShots(sc) : Len(sc.shots[k].dialogue) < 4

\* C10 witness: eight blocks alternating between two characters were parsed,
\* and a dialogue shot holds two characters
C10_Witness ==
    /\ pc = "done"
    /\ Len(processed_scenes[1].dialogue_blocks) = 8
    /\ \A s \in 1..5 : FourExchanges(SubSeq(processed_scenes[1].dialogue_blocks, s, s + 3))
    /\ \E k \in DialogueShots(processed_scenes[1]) :
          Len(processed_scenes[1].shots[k].characters_in_frame) = 2

\* the movement families named by the action lines of the vocabulary
LineMovements ==
    << [line |-> HandheldAction, families |-> {"handheld"}],
       [line |-> "We pan across the room and tilt up.", families |-> {"pan", "tilt"}],
       [line |-> "Tracking shot: crane over SARAH.", families |-> {"dolly", "crane"}] >>

\* the families an action block names: those of the lines it is made of
ExpectedMovements(block) ==
    UNION {LineMovements[k].families :
              k \in {n \in 1..Len(LineMovements) : Contains(block, LineMovements[n].line)}}

\* name is one of the space-separated words of camera_movement
NamesMovement(camera_movement, name) ==
    Contains(" " \o camera_movement \o " ", " " \o name \o " ")

\* C11: every action block that holds a camera-movement keyword has an
\* action shot, described by the block, whose camera_movement names every
\* family the block matches; there are at least as many action shots as such
\* blocks.
C11_MovementKeywordsReachShots ==
    \A i \in 1..Len(processed_scenes) :
        LET sc     == processed_scenes[i]
            moving == {j \in 1..Len(sc.action_blocks) :
                          ExpectedMovements(sc.action_blocks[j]) # {}}
            action == {k \in 1..Len(sc.shots) : EmissionRank(sc.shots[k]) = 2}
        IN  /\ \A j \in moving :
                  \E k \in action :
                      /\ StartsWith(sc.action_blocks[j], sc.shots[k].description)
                      /\ Len(sc.shots[k].description) =
                             Min({200, Len(sc.action_blocks[j])})
                      /\ \A f \in ExpectedMovements(sc.action_blocks[j]) :
                             NamesMovement(sc.shots[k].camera_movement, f)
            /\ Cardinality(action) >= Cardinality(moving)

\* C11 witness: a scene was returned with an action block of more than 150
\* characters that names three families, and with a block that names none
C11_Witness ==
    /\ pc = "done"
    /\ \E j \in 1..Len(processed_scenes[1].action_blocks) :
          /\ Len(processed_scenes[1].action_blocks[j]) > 150
          /\ Cardinality(ExpectedMovements(processed_scenes[1].action_blocks[j])) = 3
    /\ \E j \in 1..Len(processed_scenes[1].action_blocks) :
          ExpectedMovements(processed_scenes[1].action_blocks[j]) = {}

\* a continuity marker lies within the first 50 characters of the text
MarkerInOpening(text) ==
    \E marker \in {"CONTINUED", "CONT'D", "CONTINUOUS"} :
        \E a \in 1..50 :
            /\ a + Len(marker) - 1 <= 50
            /\ a + Len(marker) - 1 <= Len(text)
            /\ SubSeq(text, a, a + Len(marker) - 1) = marker

EstablishingShots(sc) ==
    {k \in 1..Len(sc.shots) : sc.shots[k].shot_type = "WIDE ESTABLISHING"}

\* C12: a scene whose opening 50 characters hold no continuity marker has
\* exactly one establishing shot, and it is the first shot; a scene whose
\* opening holds a marker has no establishing shot.
C12_OneEstablishingShotUnlessContinued ==
    \A i \in 1..Len(processed_scenes) :
        IF MarkerInOpening(scenes[i].text)
        THEN EstablishingShots(processed_scenes[i]) = {}
        ELSE EstablishingShots(processed_scenes[i]) = {1}

\* C12 witness: two scenes were returned, the first with its marker in a cue
\* after a plain heading, the second with a heading whose marker crosses the
\* 50th character
C12_Witness ==
    /\ pc = "done"
    /\ Len(processed_scenes) = 2
    /\ MarkerInOpening(scenes[1].text)
    /\ ~Contains(scenes[1].heading, "CONTINUOUS")
    /\ Len(processed_scenes[1].shots) >= 1
    /\ ~MarkerInOpening(scenes[2].text)
    /\ Contains(scenes[2].heading, "CONTINUOUS")
    /\ Len(processed_scenes[2].shots) >= 1

\* the lines of the vocabulary that must not be cues: capitals shorter than
\* 3 characters, and stop words
GuardedLines == {"A", "AB", "THE", "WITH"}

\* C13: a line in capitals that is shorter than 3 characters, or is a stop
\* word, opens no dialogue block; it is part of an action block.
C13_ShortAndStopWordsAreAction ==
    \A i \in 1..Len(processed_scenes) :
        LET sc == processed_scenes[i]
        IN  /\ \A b \in 1..Len(sc.dialogue_blocks) :
                  sc.dialogue_blocks[b].character \notin GuardedLines
            /\ \A n \in 2..Len(content) :
                  content[n] \in GuardedLines =>
                      \E a \in 1..Len(sc.action_blocks) :
                          Contains(" " \o sc.action_blocks[a] \o " ",
                                   " " \o content[n] \o " ")

\* The ten transition types the specification lists
ListedTransitionTypes ==
    {"CUT TO", "FADE IN", "FADE OUT", "DISSOLVE TO", "MATCH CUT TO", "SMASH CUT TO",
     "INTERCUT WITH", "BACK TO", "ANGLE ON", "CLOSE ON"}

\* The transitions a parse has recorded: those of _extract_transitions and
\* the transitions_in / transitions_out of every processed scene
RecordedTransitions ==
    {transitions[n] : n \in DOMAIN transitions}
        \cup UNION {{s.transitions_in[k] : k \in DOMAIN s.transitions_in}
                    \cup {s.transitions_out[k] : k \in DOMAIN s.transitions_out} :
                    s \in {processed_scenes[n] : n \in DOMAIN processed_scenes}}

\* C14: every Transition the parser creates, from _extract_transitions and
\* as a scene's transitions_in or transitions_out, has a type that is one of
\* the ten listed values.  Refuted: the first pattern also matches FADE TO.
C14_TransitionTypesListed ==
    \A t \in RecordedTransitions : t.type \in ListedTransitionTypes

\* C15: within a processed scene, every VoiceOver with timing "during_scene"
\* names a character that is the character of one of the scene's dialogue
\* blocks or that occurs in the scene's heading.  Refuted: a voice-over cue
\* opens no dialogue block, and its name need not be in the heading.
C15_VoiceOverCharacterIsKnown ==
    \A i \in 1..Len(processed_scenes) :
        LET sc == processed_scenes[i]
        IN  \A n \in 1..Len(sc.voice_overs) :
                sc.voice_overs[n].timing = "during_scene" =>
                    \/ \E b \in 1..Len(sc.dialogue_blocks) :
                           sc.dialogue_blocks[b].character = sc.voice_overs[n].character
                    \/ Contains(sc.heading, sc.voice_overs[n].character)

\* C16: a call of process_script with a missing file, or with a file whose
\* extension (in any letter case) is none of .txt, .pdf, .doc, .docx, returns
\* "None", and neither format detection nor output-directory creation nor a
\* processor has run.
C16_InvalidInputReturnsEarly ==
    (/\ pipeline # <<>>
     /\ pipeline.pc # "start"
     /\ \/ ~pipeline.script_path.exists
        \/ Lower(pipeline.script_path.suffix) \notin {".txt", ".pdf", ".doc", ".docx"}) =>
        /\ pipeline.pc = "returned"
        /\ pipeline.result = "None"
        /\ pipeline.format_type = ""
        /\ pipeline.calls = <<>>

\* an existing .xyz file with vignette content has been turned away
C16_Witness ==
    /\ pipeline # <<>>
    /\ pipeline.pc = "returned"
    /\ pipeline.script_path.exists
    /\ pipeline.script_path.suffix = ".xyz"
    /\ pipeline.script_path.text = <<"Video: Wide shot of office", "VO: The future is here">>
    /\ pipeline.result = "None"

\* a script uses segment markers: a line begins with Video: or VO:, in any
\* letter case, as the vignette processor recognises them
UsesSegmentMarkers(text) ==
    \E n \in 1..Len(text) :
        StartsWith(Upper(text[n]), "VIDEO:") \/ StartsWith(Upper(text[n]), "VO:")

\* C17: detect_script_format answers "vignette" for a readable script that
\* uses Video: / VO: segment markers or whose file name contains "vignette",
\* and "traditional" for every other readable script.  Refuted: the test is
\* a substring search in the first 1000 characters.
C17_FormatFollowsMarkers ==
    (/\ pipeline # <<>>
     /\ pipeline.format_type # ""
     /\ pipeline.script_path.readable) =>
        pipeline.format_type =
            IF \/ UsesSegmentMarkers(pipeline.script_path.text)
               \/ Contains(Lower(pipeline.script_path.stem \o pipeline.script_path.suffix),
                           "vignette")
            THEN "vignette" ELSE "traditional"

\* the lines of the text that are a cue with the given suffix and are
\* followed by narration: a line that is not blank and has a lowercase letter
NarratedCues(suffix) ==
    Ascending({i \in 1..(Len(content) - 1) :
                  /\ EndsWith(content[i], " " \o suffix)
                  /\ \E k \in 1..Len(content[i + 1]) : Ch(content[i + 1], k) \in LowerChars})

\* C18: _extract_voice_overs returns one entry per (V.O.) cue and per (O.S.)
\* cue that is followed by narration, the V.O. entries first, each with the
\* cue's name without the suffix and a text that starts with the line after
\* the cue.  Refuted: the list is empty whatever the text.
C18_VoiceOverEntryPerCue ==
    (variant = "AdvancedScriptParser" /\ pc \in {"scenes", "done", "raised"}) =>
        LET cues == NarratedCues("(V.O.)") \o NarratedCues("(O.S.)")
        IN  /\ Len(script_voice_overs) = Len(cues)
            /\ \A n \in 1..Len(cues) :
                   /\ script_voice_overs[n].character = SplitWords(content[cues[n]])[1]
                   /\ StartsWith(script_voice_overs[n].text, content[cues[n] + 1])

\* a line without its trailing colons and full stops
RECURSIVE WithoutTrailingPunctuation(_)
WithoutTrailingPunctuation(l) ==
    IF l # "" /\ Ch(l, Len(l)) \in {":", "."}
    THEN WithoutTrailingPunctuation(SubSeq(l, 1, Len(l) - 1)) ELSE l

\* the transition lines of the text: a transition phrase with its punctuation
TransitionLinesOfText ==
    {i \in 1..Len(content) :
        WithoutTrailingPunctuation(content[i])
            \in transition_patterns[1] \cup transition_patterns[2] \cup transition_patterns[3]}

\* C19: _extract_transitions returns one Transition per transition line of
\* the text, and every transition line's phrase, without its trailing
\* punctuation, is among the returned types (so FADE OUT for "FADE OUT.").
\* Refuted: a line that ends with a full stop is not matched.
C19_TransitionPerLine ==
    (variant = "AdvancedScriptParser" /\ pc \in {"scenes", "done", "raised"}) =>
        /\ Len(transitions) = Cardinality(TransitionLinesOfText)
        /\ \A i \in TransitionLinesOfText :
               \E n \in 1..Len(transitions) :
                   transitions[n].type = WithoutTrailingPunctuation(content[i])

\* the transition lines of a window of the text, in the order of the text
WindowTransitions(window) ==
    LET ls == SplitLines(window)
        at == TransitionLines(transition_patterns[1] \cup transition_patterns[2]
                                  \cup transition_patterns[3], ls)
    IN  [n \in 1..Len(at) |-> RStripColon(ls[at[n]])]

\* C20: when the 100 characters before a scene hold transition lines, the
\* scene's transitions_in is the last of them (the nearest to the scene's
\* start); when the 100 characters after it hold transition lines, its
\* transitions_out is the first of them (the nearest to the scene's end).
\* Refuted: the phrase of the last matching group is recorded, and within a
\* group the first match of the window.
C20_NearestTransitionRecorded ==
    \A i \in 1..Len(processed_scenes) :
        LET full   == FullText(content)
            before == WindowTransitions(
                          Slice(full, Max({0, scenes[i].start - 100}), scenes[i].start))
            after  == WindowTransitions(
                          Slice(full, scenes[i].end, Min({Len(full), scenes[i].end + 100})))
        IN  /\ Len(before) > 0 =>
                  /\ processed_scenes[i].transitions_in # <<>>
                  /\ processed_scenes[i].transitions_in[1].type = before[Len(before)]
            /\ Len(after) > 0 =>
                  /\ processed_scenes[i].transitions_out # <<>>
                  /\ processed_scenes[i].transitions_out[1].type = after[1]

\* the transition lines inside scene i: the lines after its heading that are
\* a phrase of transition_patterns, in any letter case, with or without colon
SceneTransitionLines(i) ==
    LET ls == Tail(SplitLines(scenes[i].text))
        at == TransitionLines(transition_patterns[1] \cup transition_patterns[2]
                                  \cup transition_patterns[3], ls)
    IN  {ls[at[n]] : n \in 1..Len(at)}

\* C21: a transition line inside a scene is not part of an action block, is
\* not a line of a dialogue block and does not open a dialogue block.
\* Refuted: the line loop of _process_scene has no transition rule.
C21_TransitionLinesAreSetAside ==
    \A i \in 1..Len(processed_scenes) :
        \A l \in SceneTransitionLines(i) :
            /\ \A a \in 1..Len(processed_scenes[i].action_blocks) :
                   ~Contains(processed_scenes[i].action_blocks[a], l)
            /\ \A b \in 1..Len(processed_scenes[i].dialogue_blocks) :
                   /\ processed_scenes[i].dialogue_blocks[b].character # l
                   /\ \A k \in 1..Len(processed_scenes[i].dialogue_blocks[b].lines) :
                          processed_scenes[i].dialogue_blocks[b].lines[k] # l

\* C22: a line that is only a parenthetical never enters the action
\* accumulator: no action block of a scene holds it, and it opens no
\* dialogue block.  Refuted: a parenthetical fails the dialogue rule and
\* falls through to the action rule, in both parsers.
C22_ParentheticalStartsNoBlock ==
    \A i \in 1..Len(processed_scenes) :
        ("action_blocks" \in DOMAIN processed_scenes[i]) =>
            /\ \A a \in 1..Len(processed_scenes[i].action_blocks) :
                   ~Contains(processed_scenes[i].action_blocks[a], "(beat)")
            /\ \A b \in 1..Len(processed_scenes[i].dialogue_blocks) :
                   processed_scenes[i].dialogue_blocks[b].character # "(beat)"

\* the shot type the cycle gives to the n-th dialogue shot of a scene
CycleShotType(n) ==
    IF n = 1 THEN "MEDIUM"
    ELSE IF n % 3 = 0 THEN "CLOSE-UP"
    ELSE IF n % 2 = 0 THEN "OVER-THE-SHOULDER"
    ELSE "MEDIUM"

\* C23: the n-th dialogue shot of a scene has the shot type of the cycle
\* (1st MEDIUM, every 3rd CLOSE-UP, every 2nd OVER-THE-SHOULDER, else MEDIUM)
\* whatever establishing and action shots precede it.  Refuted: the type is
\* computed from the number of shots of every kind emitted so far.
C23_DialogueShotTypeByPosition ==
    \A i \in 1..Len(processed_scenes) :
        LET sc == processed_scenes[i]
        IN  \A k \in DialogueShots(sc) :
                sc.shots[k].shot_type =
                    CycleShotType(Cardinality({j \in DialogueShots(sc) : j <= k}))

\* the closing shots of a scene: shot type WIDE, movement "pull back or static"
ClosingShots(sc) ==
    {k \in 1..Len(sc.shots) :
        sc.shots[k].shot_type = "WIDE" /\ sc.shots[k].camera_movement = "pull back or static"}

\* C24: a scene has a closing shot iff its other shots are more than 3 and
\* the last 50 characters of its text hold neither CUT TO nor FADE TO; the
\* closing shot is the last shot, a scene with one has at least 5 shots, and
\* no scene has two.
C24_ClosingShotRule ==
    \A i \in 1..Len(processed_scenes) :
        LET sc     == processed_scenes[i]
            others == Len(sc.shots) - Cardinality(ClosingShots(sc))
            tail   == Suffix(scenes[i].text, 50)
        IN  /\ Cardinality(ClosingShots(sc)) <= 1
            /\ ClosingShots(sc) # {} =>
                   (ClosingShots(sc) = {Len(sc.shots)} /\ Len(sc.shots) >= 5)
            /\ ClosingShots(sc) # {} <=>
                   (others > 3 /\ ~Contains(tail, "CUT TO") /\ ~Contains(tail, "FADE TO"))

\* C24 witness: a scene of five shots ends with its closing shot although a
\* CUT TO: line lies in it, more than 50 characters before its end
C24_Witness ==
    /\ pc = "done"
    /\ \E n \in 1..Len(content) : content[n] = "CUT TO:"
    /\ Len(processed_scenes[1].shots) = 5
    /\ ClosingShots(processed_scenes[1]) = {5}

\* an action block qualifies for a shot: it is longer than 100 characters or
\* holds one of the vocabulary's lines with a shot-type or movement keyword
QualifyingBlock(block) ==
    \/ Len(block) > 100
    \/ Contains(block, "A close-up of the letter.")
    \/ Contains(block, "The camera zooms in.")

\* C25: the action shots of a scene are, in order, one per qualifying action
\* block (longer than 100 characters, or holding a shot-type or movement
\* keyword), each described by the first 200 characters of its block; a
\* block of exactly 100 characters without keyword has no shot.
C25_ActionShotPerQualifyingBlock ==
    \A i \in 1..Len(processed_scenes) :
        LET sc        == processed_scenes[i]
            qualified == SelectSeq(sc.action_blocks, QualifyingBlock)
            action    == SelectSeq(sc.shots, LAMBDA shot : EmissionRank(shot) = 2)
        IN  /\ Len(action) = Len(qualified)
            /\ \A n \in 1..Len(action) : action[n].description = Prefix(qualified[n], 200)

\* C25 witness: a scene with a block of exactly 100 characters and a block of
\* 101 characters, both without keyword, has one action shot
C25_Witness ==
    /\ pc = "done"
    /\ \E a, b \in 1..Len(processed_scenes[1].action_blocks) :
          /\ Len(processed_scenes[1].action_blocks[a]) = 100
          /\ Len(processed_scenes[1].action_blocks[b]) = 101
    /\ Len(processed_scenes[1].action_blocks) = 2
    /\ Len(SelectSeq(processed_scenes[1].shots, LAMBDA shot : EmissionRank(shot) = 2)) = 1

\* C26: EnhancedScriptParser numbers the scene of the i-th heading str(i),
\* for every i and also above 26, without letter suffix, and each shot_id of
\* the scene starts with the scene's number and a hyphen.
C26_SceneNumbersAreDecimal ==
    (variant = "EnhancedScriptParser" /\ scenes # <<>>) =>
        \A i \in 1..Len(processed_scenes) :
            LET sc == processed_scenes[i]
            IN  /\ sc.scene_number = Str(i)
                /\ \A k \in 1..Len(sc.shots) :
                       Prefix(sc.shots[k].shot_id, Len(sc.scene_number) + 1)
                           = sc.scene_number \o "-"

RECURSIVE Concat(_)
Concat(seqs) == IF seqs = <<>> THEN <<>> ELSE Head(seqs) \o Concat(Tail(seqs))

\* C27: in every scene the dialogue entries of the dialogue shots, taken in
\* shot order, are the dialogue blocks' joined lines, one entry per block, in
\* block order: no block is lost and none is duplicated.
C27_DialogueBlocksKept ==
    \A i \in 1..Len(processed_scenes) :
        LET sc      == processed_scenes[i]
            shots   == SelectSeq(sc.shots, LAMBDA shot : EmissionRank(shot) = 3)
            entries == Concat([k \in 1..Len(shots) |-> shots[k].dialogue])
        IN  entries = [k \in 1..Len(sc.dialogue_blocks) |->
                          Join(sc.dialogue_blocks[k].lines, " ")]

\* C27 witness: three blocks, the first two with different lines in one shot
\* and the third in a second shot
C27_Witness ==
    /\ pc = "done"
    /\ Len(processed_scenes[1].dialogue_blocks) = 3
    /\ \E a, b \in DialogueShots(processed_scenes[1]) :
          /\ a < b
          /\ processed_scenes[1].shots[a].dialogue = <<"One.", "Two.">>
          /\ Len(processed_scenes[1].shots[b].dialogue) = 1

\* C28: whatever the order in which the four parallel agents end and are
\* collected, the prompt synthesis starts only when none of them is running,
\* agent_results then holds the breakdown and, for each of the four, its
\* result or {} if it raised, and the returned agent_results is determined by
\* the shot and by which agents raised.
C28_SynthesisAfterAllAgents ==
    variant = "CoordinatedAgentSystem" =>
        LET c == coordinated
            at_synthesis ==
                [k \in {"breakdown"} \cup PARALLEL_AGENTS |->
                    IF k = "breakdown" THEN CAS_script_breakdown(c.shot)
                    ELSE IF c.futures[k].state = "finished"
                    THEN CAS_process_with_context(k, c.shot, CAS_script_breakdown(c.shot))
                    ELSE <<>>]
        IN  /\ c.pc \in {"synthesis", "returned"} =>
                   \A a \in PARALLEL_AGENTS : c.futures[a].state # "running"
            /\ c.pc = "synthesis" => c.agent_results = at_synthesis
            /\ c.pc = "returned" =>
                   c.result = CAS_ensure_consistency(
                       ("veo3_prompt" :> CAS_prompt_synthesis(c.shot, at_synthesis))
                           @@ at_synthesis)

\* C28 witness: the agents were collected in the reverse of the order of
\* submission, the cinematography agent raised, and the call returned
C28_Witness ==
    /\ variant = "CoordinatedAgentSystem"
    /\ coordinated.pc = "returned"
    /\ coordinated.collected = <<"lighting_mood", "cinematography",
                                 "environment_props", "character_analysis">>
    /\ coordinated.futures["cinematography"].state = "raised"
    /\ coordinated.futures["lighting_mood"].state = "finished"
    /\ DOMAIN coordinated.result["cinematography"] = {"mood_influence"}

\* C29: the processors of a call of process_script run in the order script
\* processing, enhanced prompts, natural prompts; a call whose script
\* processing gave no result directory returns "None" with neither prompt
\* phase run; an exception of a prompt phase is contained: the call goes on
\* to the next phase and returns the result directory.
C29_PhasesInOrderErrorsContained ==
    pipeline # <<>> =>
        LET prompts == {<<>>, <<"EnhancedVeo3Processor">>, <<"Veo3PromptProcessor">>,
                        <<"EnhancedVeo3Processor", "Veo3PromptProcessor">>}
            Has(seq, x) == \E n \in 1..Len(seq) : seq[n] = x
            processors == SelectSeq(pipeline.calls,
                              LAMBDA c : c \notin {"detect_script_format",
                                                   "create_output_directory"})
        IN  /\ processors \in
                   {<<>>} \cup {<<p>> \o t :
                                   p \in {"VignetteFilmCrewProcessor",
                                          "AdvancedFilmCrewProcessor"},
                                   t \in prompts}
            /\ (pipeline.pc = "returned" /\ pipeline.result_dir = "") =>
                   /\ pipeline.result = "None"
                   /\ Len(processors) <= 1
                   /\ pipeline.errors = <<>>
            /\ pipeline.result_dir # "" =>
                   /\ pipeline.pc \in {"phase2", "phase3", "returned"}
                   /\ pipeline.pc = "returned" => pipeline.result = pipeline.result_dir
            /\ Has(pipeline.errors, "enhanced") =>
                   /\ Has(pipeline.calls, "EnhancedVeo3Processor")
                   /\ pipeline.pc \in {"phase3", "returned"}
            /\ Has(pipeline.errors, "natural") =>
                   /\ Has(pipeline.calls, "Veo3PromptProcessor")
                   /\ pipeline.pc = "returned"

\* C29 witness: the enhanced phase raised, the natural phase ran after it,
\* and the call returned the result directory
C29_Witness ==
    /\ pipeline # <<>>
    /\ pipeline.pc = "returned"
    /\ pipeline.errors = <<"enhanced">>
    /\ pipeline.calls = <<"detect_script_format", "create_output_directory",
                          "AdvancedFilmCrewProcessor", "EnhancedVeo3Processor",
                          "Veo3PromptProcessor">>
    /\ pipeline.result = "result_dir"

\* C30: every voice-over of a scene, and every voice-over attached to a
\* shot, has timing "during_scene"; no shot has type VARIOUS and no shot has
\* is_montage set, also in a scene whose type is MONTAGE.
C30_NoStandaloneVoiceOverShot ==
    \A i \in 1..Len(processed_scenes) :
        LET sc == processed_scenes[i]
        IN  /\ \A v \in 1..Len(sc.voice_overs) : sc.voice_overs[v].timing = "during_scene"
            /\ \A k \in 1..Len(sc.shots) :
                   /\ sc.shots[k].shot_type # "VARIOUS"
                   /\ ~sc.shots[k].is_montage
                   /\ \A v \in 1..Len(sc.shots[k].voice_overs) :
                          sc.shots[k].voice_overs[v].timing = "during_scene"

\* C30 witness: a scene of type MONTAGE with a voice-over and an action shot
\* that carries it
C30_Witness ==
    /\ pc = "done"
    /\ processed_scenes[1].scene_type = "MONTAGE"
    /\ Len(processed_scenes[1].voice_overs) = 1
    /\ \E k \in 1..Len(processed_scenes[1].shots) :
          /\ EmissionRank(processed_scenes[1].shots[k]) = 2
          /\ processed_scenes[1].shots[k].voice_overs = processed_scenes[1].voice_overs

====
